---- MODULE Spec2Model ----
(***************************************************************************)
(* AgentOrchestrator (AORBIT): the request-authorization pipeline and its  *)
(* stores.  The Redis store is the shared state; every request through the *)
(* middleware stack, every administrative command and every RBACManager    *)
(* call is one action.                                                     *)
(*                                                                         *)
(*   Spec       the HTTP pipeline of main.py: ResponseCache -> RateLimiter *)
(*              -> AuthMiddleware -> route handler, and the key stores.    *)
(*   SpecRbac   RBACManager.has_permission over roles and rbac:api_keys.   *)
(*   SpecRoles  RBACManager.get_effective_permissions over role graphs.    *)
(*   SpecCache  the pipeline with two credentials under every credential   *)
(*              header name and cache switch: what ResponseCache does.     *)
(*   SpecRate   RateLimiter.check_rate_limit called by concurrent workers. *)
(*   SpecLimited  the pipeline under a small RATE_LIMIT_RPM.               *)
(*   SpecSecurity  SecurityIntegration's middleware and its permission     *)
(*              dependency in front of a route, with the key tooling.      *)
(*   SpecAudit  AuditLogger: log_event command by command, queries.        *)
(*   SpecAdmin  RBACManager.create_role and concurrent create_api_key.     *)
(*   SpecBatch  BatchProcessor: submissions and the processor loops.       *)
(*   SpecBatchFair  the same under fair scheduling of the loops.           *)
(*   SpecLifecycle  the same with stop_processing and restarts.            *)
(*   SpecStartup  main.py: connection attempts, reduced mode.              *)
(*   SpecProtection  DataProtectionService: encrypt, then decrypt fields.  *)
(*   SpecApiSecurity  APISecurityMiddleware in front of a route.           *)
(***************************************************************************)
EXTENDS Integers, Sequences, FiniteSets, TLC

VARIABLES
    roles,           \* Redis "role:{name}" -> stored role (a dict by name)
    role_cache,      \* RBACManager._role_cache
    rbac_api_keys,   \* Redis hash "rbac:api_keys"
    now,             \* time.time(), whole seconds
    ret,             \* outcome of the last RBACManager call
    api_keys,        \* Redis hash "api_keys": the traditional key store
    apikey,          \* Redis "apikey:{key}": the enterprise store, key -> role
    apikey_metadata, \* Redis "apikey:{key}:metadata"
    cache,           \* Redis "cache:{fingerprint}" -> cached response
    rate_limit,      \* Redis sorted sets "rate_limit:{client_ip}"
    inflight,        \* check_rate_limit calls in progress, per worker process
    rate_log,        \* history: the check_rate_limit calls that returned
    cache_origin,    \* history: the request each cache entry was created by
    config,          \* the deployment's configuration (environment)
    security,        \* SecurityIntegration: its switches and components
    apikey_ip_whitelist, \* Redis "apikey:{key}:ip_whitelist"
    audit_events,    \* Redis hash "audit:events", in order of logging
    audit_index,     \* Redis sorted sets "audit:index:...": <<index, id, score>>
    audit_pc,        \* log_event calls in progress, per worker process
    audit_returned,  \* history: the event each log_event call returned for
    rbac_api_key_names, \* Redis set "rbac:api_key_names"
    rbac_key_name,   \* the "name" field of each record of "rbac:api_keys"
    create_pc,       \* create_api_key calls in progress, per worker process
    batch_jobs,      \* Redis "batch:job:{id}" -> stored job
    batch_queue,     \* Redis list "batch:queue", head first
    batch_worker,    \* BatchProcessor's processor loop, per worker process
    batch_log,       \* history: the stored statuses and executed items of jobs
    batch_processor, \* BatchProcessor._processing and ._processor_thread, per process
    startup,         \* main.py's module-level start-up
    resp             \* the last HTTP exchange, with the stores it ran against

rbac_vars == <<roles, role_cache, rbac_api_keys, ret>>
http_vars ==
    <<api_keys, apikey, apikey_metadata, cache, cache_origin, rate_limit,
      inflight, rate_log, config, security, apikey_ip_whitelist,
      audit_events, audit_index, resp>>
\* the state of the components that the HTTP and RBAC actions do not touch
admin_vars == <<rbac_api_key_names, rbac_key_name, create_pc>>
batch_vars ==
    <<batch_jobs, batch_queue, batch_worker, batch_log, batch_processor>>
non_audit_vars == <<admin_vars, batch_vars, startup>>
idle_vars == <<audit_pc, audit_returned, non_audit_vars>>
vars == <<roles, role_cache, rbac_api_keys, now, ret,
          api_keys, apikey, apikey_metadata, cache, cache_origin, rate_limit,
          inflight, rate_log, config, security, apikey_ip_whitelist,
          audit_events, audit_index, resp, audit_pc, audit_returned,
          rbac_api_key_names, rbac_key_name, create_pc,
          batch_jobs, batch_queue, batch_worker, batch_log,
          batch_processor, startup>>

None == "None"       \* an absent string argument
NoneInt == -1        \* an absent integer (JSON null)
Nothing == <<>>      \* Optional[...] without a value
Some(x) == <<x>>     \* Optional[...] holding x

\* ------------------------------------------------------------------------
\* Bounds
\* ------------------------------------------------------------------------
MaxTime == 2
RecursionLimit == 4

RoleNames == {"A", "B", "C"}
RbacKeys == {"k1"}
PermissionArgs == {"read", "write"}
ResourceArgs == {<<None, None>>, <<"doc", "1">>}
\* which store operations raise during one call: none, the credential lookup,
\* every role fetch, or the fetch of one role
StoreFailures == {"none", "keys", "roles", "A"}

\* f"{permission}:{resource_type}:{resource_id}"
resource_permission(permission, resource_type, resource_id) ==
    permission \o ":" \o resource_type \o ":" \o resource_id

PermissionChoices == {{}, {"read"}, {"*"}, {"read:doc:1"}}
ParentChoices == {<<>>} \cup {<<r>> : r \in RoleNames}
RoleRecords == [permissions : PermissionChoices, parent_roles : ParentChoices]

RoleListChoices == {<<>>, <<"A">>, <<"A", "B">>}
Expirations == {NoneInt} \cup (0 .. MaxTime - 1)
KeyRecords == [is_active : BOOLEAN, expiration : Expirations, roles : RoleListChoices]

\* Python truthiness of an optional integer: None and 0 are falsy.
Truthy(v) == v # NoneInt /\ v # 0

\* ------------------------------------------------------------------------
\* RBACManager
\* ------------------------------------------------------------------------

\* get_role: the in-process cache (known) first, then exists/get on the store; a
\* store error is logged and answered with None.  fail names the store
\* operations that raise during the call: "roles" every role fetch, a role
\* name the fetch of that role, "keys" the credential lookup.
get_role(known, role_name, fail) ==
    IF role_name \in DOMAIN known
    THEN [role |-> Some(known[role_name]), cache |-> known, logged |-> FALSE]
    ELSE IF fail = "roles" \/ fail = role_name
    THEN [role |-> Nothing, cache |-> known, logged |-> TRUE]
    ELSE IF role_name \notin DOMAIN roles
    THEN [role |-> Nothing, cache |-> known, logged |-> FALSE]
    ELSE [role |-> Some(roles[role_name]),
          cache |-> [n \in DOMAIN known \cup {role_name} |->
                        IF n = role_name THEN roles[n] ELSE known[n]],
          logged |-> FALSE]

RECURSIVE process_role(_, _, _, _)
RECURSIVE process_roles(_, _, _, _, _)

\* process_role without the processed_roles guard
process_role_unguarded(st, role_name, fail, depth) ==
    IF depth > RecursionLimit
    THEN [st EXCEPT !.terminated = FALSE]
    ELSE LET g == get_role(st.cache, role_name, fail)
             st1 == [st EXCEPT !.processed = @ \cup {role_name},
                               !.cache = g.cache,
                               !.logged = @ \/ g.logged]
         IN  IF g.role = Nothing
             THEN st1
             ELSE process_roles(
                      [st1 EXCEPT !.eff = @ \cup g.role[1].permissions],
                      g.role[1].parent_roles, 1, fail, depth + 1)

\* process_role of get_effective_permissions; depth counts the nested calls,
\* exceeding the interpreter's recursion limit raises RecursionError.
process_role(st, role_name, fail, depth) ==
    IF depth > RecursionLimit
    THEN [st EXCEPT !.terminated = FALSE]
    ELSE IF role_name \in st.processed
    THEN st
    ELSE LET g == get_role(st.cache, role_name, fail)
             st1 == [st EXCEPT !.processed = @ \cup {role_name},
                               !.cache = g.cache,
                               !.logged = @ \/ g.logged]
         IN  IF g.role = Nothing
             THEN st1
             ELSE process_roles(
                      [st1 EXCEPT !.eff = @ \cup g.role[1].permissions],
                      g.role[1].parent_roles, 1, fail, depth + 1)

\* the two "for ... : await process_role(...)" loops
process_roles(st, names, i, fail, depth) ==
    IF i > Len(names) \/ ~st.terminated
    THEN st
    ELSE process_roles(process_role(st, names[i], fail, depth),
                       names, i + 1, fail, depth)

get_effective_permissions(role_names, fail) ==
    process_roles([eff |-> {}, processed |-> {}, cache |-> role_cache,
                   terminated |-> TRUE, logged |-> FALSE],
                  role_names, 1, fail, 1)

\* the loop state after a get_role call
loaded(st, g) == [st EXCEPT !.cache = g.cache, !.logged = @ \/ g.logged]

RECURSIVE parents_loop(_, _, _, _, _)
\* body of "for parent_role_name in role.parent_roles", g the loaded parent
parent_step(st, g, parent_roles, i, permission, fail) ==
    IF g.role # Nothing /\ permission \in g.role[1].permissions
    THEN [loaded(st, g) EXCEPT !.found = TRUE]
    ELSE parents_loop(loaded(st, g), parent_roles, i + 1, permission, fail)

\* "for parent_role_name in role.parent_roles" of has_permission
parents_loop(st, parent_roles, i, permission, fail) ==
    IF i > Len(parent_roles)
    THEN st
    ELSE parent_step(st, get_role(st.cache, parent_roles[i], fail),
                     parent_roles, i, permission, fail)

\* the checks of one role of "for role_name in roles": direct permission,
\* resource-specific permission, then the role's parents
role_grants(st, role, permission, resource, fail) ==
    IF permission \in role.permissions
    THEN [st EXCEPT !.found = TRUE]
    ELSE IF resource[1] # None /\ resource[2] # None
            /\ resource_permission(permission, resource[1], resource[2])
                   \in role.permissions
    THEN [st EXCEPT !.found = TRUE]
    ELSE parents_loop(st, role.parent_roles, 1, permission, fail)

RECURSIVE roles_loop(_, _, _, _, _, _)
\* after one role was checked: return True, or go on with the next role
role_next(r, role_list, i, permission, resource, fail) ==
    IF r.found
    THEN r
    ELSE roles_loop(r, role_list, i + 1, permission, resource, fail)

\* body of "for role_name in roles", g the loaded role
role_step(st, g, role_list, i, permission, resource, fail) ==
    IF g.role = Nothing
    THEN roles_loop(loaded(st, g), role_list, i + 1, permission, resource, fail)
    ELSE role_next(role_grants(loaded(st, g), g.role[1], permission, resource, fail),
                   role_list, i, permission, resource, fail)

\* "for role_name in roles" of has_permission
roles_loop(st, role_list, i, permission, resource, fail) ==
    IF i > Len(role_list)
    THEN st
    ELSE role_step(st, get_role(st.cache, role_list[i], fail),
                   role_list, i, permission, resource, fail)

\* The body of has_permission at time t; on_error is what the "except
\* Exception" handler returns.  logged: some store operation raised during
\* the call (and was logged).
has_permission_body(api_key, permission, resource, fail, t, on_error) ==
    LET api_key_info == rbac_api_keys[api_key]
        denied == [result |-> FALSE, raised |-> FALSE, cache |-> role_cache,
                   logged |-> FALSE]
    IN  IF fail = "keys"
        THEN [denied EXCEPT !.result = on_error, !.logged = TRUE]
        ELSE IF api_key \notin DOMAIN rbac_api_keys
        THEN denied
        ELSE IF ~api_key_info.is_active
        THEN denied
        ELSE IF Truthy(api_key_info.expiration) /\ t > api_key_info.expiration
        THEN denied
        ELSE IF api_key_info.roles = <<>>
        THEN denied
        ELSE LET r == roles_loop([found |-> FALSE, cache |-> role_cache,
                                  logged |-> FALSE],
                                 api_key_info.roles, 1, permission, resource, fail)
             IN  [result |-> r.found, raised |-> FALSE, cache |-> r.cache,
                  logged |-> r.logged]

\* has_permission with an exception handler that answers True
has_permission_fail_open(api_key, permission, resource, fail, t) ==
    has_permission_body(api_key, permission, resource, fail, t, TRUE)

\* has_permission(api_key, permission, resource_type, resource_id) at time t
has_permission(api_key, permission, resource, fail, t) ==
    has_permission_body(api_key, permission, resource, fail, t, FALSE)

\* ------------------------------------------------------------------------
\* The HTTP pipeline (main.py): ResponseCache -> RateLimiter ->
\* AuthMiddleware -> route handler.  MetricsMiddleware, outermost, passes
\* every message through unchanged and re-raises every exception.
\* ------------------------------------------------------------------------
CredValues == {"k1", "k2"}      \* credential header values; "" is no header
TradKeys == {"k1"}              \* keys of the traditional store
EntKeys == {"k2"}               \* keys the administrative tooling issues
ClientIps == {"ip1"}
Workers == {"w1", "w2"}         \* server processes sharing the Redis store
MaxCalls == 4                   \* check_rate_limit calls of one exploration
RateLimits == {1, 2}            \* RATE_LIMIT_RPM values explored
MaxEvents == 2                  \* event ids in use besides the preloaded ones
AuditWorkers == {"w1"}          \* the workers that log, others only query
EventIds == {1}                 \* event ids chosen by callers of log_event
EventTypes == {"auth.success"}
MaxJobs == 2                    \* batch jobs submitted in one exploration
Agents == {"fin", "ghost"}      \* the agent argument of submit_job
KnownAgents == {"fin"}          \* agents with a src.routes.<agent>.ao_agent
InputLists == {<<"good">>, <<"bad", "good">>}  \* "bad": the workflow raises
LookupKinds == {"def", "async def"}   \* how get_workflow_func is declared
MaxKeys == 2                    \* credentials create_api_key may register
Tokens == <<"ao-t1", "ao-t2", "ao-t3">>   \* what secrets.token_urlsafe yields
KeyNames == {"n1"}              \* the name argument of create_api_key
CreatedRoleNames == {"A", "B"}  \* the name argument of create_role
RoleArgs ==                     \* the other arguments of create_role
    {[permissions |-> {"read"}, parent_roles |-> <<>>],
     [permissions |-> {"*"}, parent_roles |-> <<"A">>]}
HeaderNames == {"X-API-Key", "X-Custom-Key"}
HandlerStatuses == {200, 404}   \* what the route handler answers
ExpiresDays == {0, 1}           \* --expires of generate-key, in time units
\* --ip-whitelist of generate-key: none given, or one address
IpWhitelists == {<<>>, <<"ip2">>}

\* which store operation fails during one request: none; the cache lookup
\* raises; the rate limiter's pipeline raises; AuthMiddleware's own ping is
\* false or its lookup raises; the ping or a lookup inside validate_api_key
\* fails
Failures == {"none", "cache", "rate_limit", "auth", "validate"}
\* the same for one call of check_auth: none, inside validate_api_key,
\* inside invalidate_api_key
CheckAuthFailures == {"none", "validate", "invalidate"}

public_paths ==
    {"/", "/api/v1/health", "/docs", "/redoc", "/openapi.json",
     "/openapi.json/", "/metrics"}
excluded_paths == {"/api/v1/health", "/metrics"}

\* the routes requests are sent to: the health check, a route of the API
\* router, the logout route
Routes ==
    {[method |-> "GET", path |-> "/api/v1/health"],
     [method |-> "GET", path |-> "/api/v1/tools"],
     [method |-> "POST", path |-> "/api/v1/logout"]}

\* RateLimitConfig.requests_per_minute (RATE_LIMIT_RPM) of this deployment
requests_per_minute == config.requests_per_minute
window_seconds == 60
\* the configuration main.py builds from an empty environment
DefaultConfig ==
    [api_key_header |-> "X-API-Key", requests_per_minute |-> 60,
     rate_limit_enabled |-> TRUE, cache_enabled |-> TRUE]

\* a record of the traditional store: the JSON document of a key.  format
\* "invalid" is a value that is no JSON dict with a "key" field; active is
\* the optional "active" field.
TradRecords ==
    [format : {"dict"}, key : {"k1"}, active : {"true", "false"}]
        \cup {[format |-> "dict", key |-> "other", active |-> "true"],
              [format |-> "invalid", key |-> "", active |-> None]}
\* the metadata document of an enterprise key: "expires" is a timestamp or
\* "never" (NoneInt)
MetadataRecords ==
    [role : {"user"}, expires : {NoneInt} \cup (0 .. MaxTime + 1),
     ip_whitelist : IpWhitelists]
\* the metadata documents found at start-up: no expiry, or one that passed
ProvisionedMetadata ==
    [role : {"user"}, expires : {NoneInt, 0}, ip_whitelist : {<<>>}]

CacheHeaders == {"Cache-Control", "Pragma", "Expires"}
ErrorHeaders == {"content-type"} \cup CacheHeaders
SecurityHeaders ==
    CacheHeaders \cup {"X-Content-Type-Options", "X-Frame-Options", "X-XSS-Protection"}

NoResponse == [status |-> 0, content |-> <<>>, headers |-> {}]
\* the 500 the server answers when an exception leaves the middleware stack
ServerError ==
    [status |-> 500, content |-> <<"error", "Internal Server Error">>, headers |-> {}]

\* the JSON error body AuthMiddleware sends, with its headers
send_error_response(status_code, detail) ==
    [status |-> status_code, content |-> <<"error", detail>>, headers |-> ErrorHeaders]

\* the route handler's response; handler_status is its outcome
handler(request, handler_status) ==
    [status |-> handler_status,
     content |-> IF handler_status < 400
                 THEN <<"data", request.path>>
                 ELSE <<"error", "Not Found">>,
     headers |-> {"content-type"}]

\* AuthMiddleware.invalidate_api_key: remove the key from both stores; a
\* store error is logged and nothing is removed.
invalidate_api_key(api_key, fail) ==
    IF fail = "invalidate"
    THEN [api_keys |-> api_keys, apikey |-> apikey,
          apikey_metadata |-> apikey_metadata]
    ELSE [api_keys |-> [k \in DOMAIN api_keys \ {api_key} |-> api_keys[k]],
          apikey |-> [k \in DOMAIN apikey \ {api_key} |-> apikey[k]],
          apikey_metadata |->
              [k \in DOMAIN apikey_metadata \ {api_key} |-> apikey_metadata[k]]]

\* validate_api_key with every check that refuses the traditional record
\* left out
validate_api_key_unchecked(api_key, fail) ==
    IF api_key = ""
    THEN Nothing
    ELSE IF fail = "validate"
    THEN Nothing
    ELSE IF api_key \notin DOMAIN api_keys /\ api_key \notin DOMAIN apikey
    THEN Nothing
    ELSE IF api_key \in DOMAIN api_keys
    THEN Some(api_keys[api_key])
    ELSE IF api_key \notin DOMAIN apikey_metadata
    THEN Nothing
    ELSE Some([key |-> api_key,
               roles |-> <<apikey_metadata[api_key].role>>,
               rate_limit |-> 100])

\* a validation that takes a store failure for a valid credential
validate_api_key_fail_open(api_key, fail) ==
    IF api_key = ""
    THEN Nothing
    ELSE IF fail = "validate"
    THEN Some([key |-> api_key, roles |-> <<"user">>, rate_limit |-> 100])
    ELSE IF api_key \in DOMAIN api_keys
    THEN Some(api_keys[api_key])
    ELSE Nothing

\* AuthMiddleware.validate_api_key: the key's record from the traditional
\* store, else from the enterprise store; None on any failure.
validate_api_key(api_key, fail) ==
    IF api_key = ""
    THEN Nothing
    ELSE IF fail = "validate"
    THEN Nothing
    ELSE IF api_key \notin DOMAIN api_keys /\ api_key \notin DOMAIN apikey
    THEN Nothing
    ELSE IF api_key \in DOMAIN api_keys
    THEN IF api_keys[api_key].format # "dict"
         THEN Nothing
         ELSE IF api_keys[api_key].key # api_key
         THEN Nothing
         ELSE Some(api_keys[api_key])
    ELSE IF api_key \notin DOMAIN apikey
    THEN Nothing
    ELSE IF api_key \notin DOMAIN apikey_metadata
    THEN Nothing
    ELSE Some([key |-> api_key,
               roles |-> <<apikey_metadata[api_key].role>>,
               rate_limit |-> 100])

\* a request AuthMiddleware answers itself
rejected(status_code, detail) ==
    [called |-> TRUE, response |-> send_error_response(status_code, detail),
     handler |-> FALSE, state_api_key |-> Nothing]
\* a request AuthMiddleware hands to the application, whose response start
\* gets the headers added
passed(request, handler_status, headers, api_key_data) ==
    [called |-> TRUE,
     response |-> [handler(request, handler_status) EXCEPT !.headers = @ \cup headers],
     handler |-> TRUE, state_api_key |-> api_key_data]
not_called ==
    [called |-> FALSE, response |-> NoResponse, handler |-> FALSE,
     state_api_key |-> Nothing]

\* AuthMiddleware.__call__ with a request that was resolved to api_key_data
authenticate(request, api_key_data, handler_status) ==
    IF api_key_data = Nothing
    THEN rejected(401, "Invalid API key")
    ELSE passed(request, handler_status, SecurityHeaders, api_key_data)

\* AuthMiddleware.__call__ letting a request without a credential through
AuthMiddleware_call_anonymous(request, fail, handler_status) ==
    IF request.path \in public_paths \/ request.api_key = ""
    THEN passed(request, handler_status, CacheHeaders, Nothing)
    ELSE IF fail = "auth"
    THEN rejected(500, "Authentication system error")
    ELSE IF request.api_key \notin DOMAIN api_keys
            /\ request.api_key \notin DOMAIN apikey
    THEN rejected(401, "Invalid API key")
    ELSE authenticate(request, validate_api_key(request.api_key, fail),
                      handler_status)

\* AuthMiddleware.__call__
AuthMiddleware_call(request, fail, handler_status) ==
    IF request.path \in public_paths
    THEN passed(request, handler_status, CacheHeaders, Nothing)
    ELSE IF request.api_key = ""
    THEN rejected(401, "API key is missing")
    ELSE IF fail = "auth"
    THEN rejected(500, "Authentication system error")
    ELSE IF request.api_key \notin DOMAIN api_keys
            /\ request.api_key \notin DOMAIN apikey
    THEN rejected(401, "Invalid API key")
    ELSE authenticate(request, validate_api_key(request.api_key, fail),
                      handler_status)

\* AuthMiddleware.check_auth: the outcome for the caller and the key stores
\* it leaves.  A logout path invalidates the presented key and answers 401.
check_auth(request, fail) ==
    LET kept == [api_keys |-> api_keys, apikey |-> apikey,
                 apikey_metadata |-> apikey_metadata]
        api_key_data == validate_api_key(request.api_key, fail)
    IN  IF request.path \in public_paths
        THEN [status |-> 0, detail |-> "", data |-> Nothing, stores |-> kept]
        ELSE IF request.api_key = ""
        THEN [status |-> 401, detail |-> "API key is missing",
              data |-> Nothing, stores |-> kept]
        ELSE IF request.path = "/api/v1/logout"
        THEN [status |-> 401, detail |-> "Logged out successfully",
              data |-> Nothing,
              stores |-> invalidate_api_key(request.api_key, fail)]
        ELSE IF api_key_data = Nothing
        THEN [status |-> 401, detail |-> "Invalid API key",
              data |-> Nothing, stores |-> kept]
        ELSE IF api_key_data[1].key # request.api_key
        THEN [status |-> 401, detail |-> "Invalid API key",
              data |-> Nothing, stores |-> kept]
        ELSE [status |-> 0, detail |-> "", data |-> api_key_data, stores |-> kept]

\* RateLimiter.check_rate_limit at time t: drop the entries older than the
\* window, count, add this request (one member per second).  The key's
\* 60 s expiry removes nothing the next call's cleaning would keep.
\* request_count is the pipeline's zcard result, reset the "reset" of the
\* 429 detail.
check_rate_limit(client_ip, t) ==
    LET kept == {s \in rate_limit[client_ip] : s > t - window_seconds}
    IN  IF ~config.rate_limit_enabled
        THEN [window |-> rate_limit[client_ip], limited |-> FALSE,
              request_count |-> 0, reset |-> 0]
        ELSE [window |-> kept \cup {t},
              limited |-> Cardinality(kept) > requests_per_minute,
              request_count |-> Cardinality(kept),
              reset |-> 60 - (t % 60)]

\* no check_rate_limit call in progress in a worker
\* a worker with no call in progress
NoCall == [pc |-> 0]
\* main.py after its import: the client connected by the first attempt and
\* everything that needs it set up
Started ==
    [pc |-> "started", attempts |-> 1, failed |-> 0, after_success |-> 0,
     redis_client |-> TRUE, batch_processor |-> TRUE,
     middleware |-> {"AuthMiddleware", "RateLimiter", "ResponseCache",
                     "MetricsMiddleware"}]
Idle == [phase |-> "idle", client_ip |-> "", current_time |-> 0]

\* RateLimiter.__call__: an exceeded limit (or a failing store) raises out
\* of the middleware stack, otherwise the request goes on to AuthMiddleware.
RateLimiter_call(request, fail, handler_status, t) ==
    LET rl == check_rate_limit(request.client_ip, t)
    IN  IF fail = "rate_limit"
        THEN [raised |-> TRUE, limited |-> FALSE, rate_limit |-> rate_limit,
              auth |-> not_called]
        ELSE IF rl.limited
        THEN [raised |-> TRUE, limited |-> TRUE,
              rate_limit |-> [rate_limit EXCEPT ![request.client_ip] = rl.window],
              auth |-> not_called]
        ELSE [raised |-> FALSE, limited |-> FALSE,
              rate_limit |-> [rate_limit EXCEPT ![request.client_ip] = rl.window],
              auth |-> AuthMiddleware_call(request, fail, handler_status)]

\* ResponseCache._get_cache_key: the credential is read from the header
\* named "X-API-Key"; query string and body are empty in every request here.
get_cache_key(request) ==
    <<IF config.api_key_header = "X-API-Key" THEN request.api_key ELSE "",
      request.method, request.path>>

\* ResponseCache.get_cached_response
get_cached_response(request) ==
    IF ~config.cache_enabled
    THEN Nothing
    ELSE IF request.path \in excluded_paths
    THEN Nothing
    ELSE IF get_cache_key(request) \in DOMAIN cache
    THEN Some(cache[get_cache_key(request)])
    ELSE Nothing

\* cache_response without its test of excluded_paths
cache_response_any_path(request, response_data) ==
    IF ~config.cache_enabled
    THEN cache
    ELSE [k \in DOMAIN cache \cup {get_cache_key(request)} |->
             IF k = get_cache_key(request) THEN response_data ELSE cache[k]]

\* ResponseCache.cache_response; entries live for ttl = 300 s, longer than
\* the time span explored
cache_response(request, response_data) ==
    IF ~config.cache_enabled
    THEN cache
    ELSE IF request.path \in excluded_paths
    THEN cache
    ELSE [k \in DOMAIN cache \cup {get_cache_key(request)} |->
             IF k = get_cache_key(request) THEN response_data ELSE cache[k]]

\* ResponseCache.__call__ on a hit: the application still runs, and every
\* message it sends is overwritten with the cached status, headers and body
cached_send(cached_data, down) ==
    [raised |-> down.raised, limited |-> down.limited, hit |-> TRUE,
     stored |-> FALSE, auth |-> down.auth,
     client |-> IF down.raised
                THEN ServerError
                ELSE [status |-> cached_data.status_code,
                      content |-> cached_data.content,
                      headers |-> cached_data.headers],
     cache |-> cache, rate_limit |-> down.rate_limit]

\* ResponseCache.__call__ on a miss: the response is passed on and, when its
\* status is below 400, stored
capture_response(request, down) ==
    [raised |-> down.raised, limited |-> down.limited, hit |-> FALSE,
     stored |-> ~down.raised /\ down.auth.response.status < 400
                /\ config.cache_enabled /\ request.path \notin excluded_paths,
     auth |-> down.auth,
     client |-> IF down.raised THEN ServerError ELSE down.auth.response,
     cache |-> IF ~down.raised /\ down.auth.response.status < 400
               THEN cache_response(request,
                        [content |-> down.auth.response.content,
                         status_code |-> down.auth.response.status,
                         headers |-> down.auth.response.headers])
               ELSE cache,
     rate_limit |-> down.rate_limit]

\* ResponseCache.__call__
ResponseCache_call(request, fail, handler_status, t) ==
    IF fail = "cache" /\ config.cache_enabled
       /\ request.path \notin excluded_paths
    THEN [raised |-> TRUE, limited |-> FALSE, hit |-> FALSE,
          stored |-> FALSE, auth |-> not_called,
          client |-> ServerError, cache |-> cache, rate_limit |-> rate_limit]
    ELSE IF get_cached_response(request) # Nothing
    THEN cached_send(get_cached_response(request)[1],
                     RateLimiter_call(request, fail, handler_status, t))
    ELSE capture_response(request,
                          RateLimiter_call(request, fail, handler_status, t))

\* the stored documents of one key, None where there is none
Lookup(store, k) == IF k \in DOMAIN store THEN Some(store[k]) ELSE Nothing

\* ------------------------------------------------------------------------
\* SecurityIntegration (security/integration.py): its middleware in front of
\* a route that may declare a required permission
\* ------------------------------------------------------------------------
SourceAddresses == {"ip1", "ip2"}
\* credential header values sent to the security middleware: an enterprise
\* key, and a value of the legacy format (prefix "ao-")
SecurityKeys == {"k2", "ao-1"}
skipped_paths == {"/docs", "/redoc", "/openapi.json", "/", "/api/v1/health"}
\* api_key.startswith(("aorbit", "ao-"))
startswith_legacy(api_key) == api_key \in {"ao-1"}
\* what a route declares: no permission, or a permission with or without a
\* resource type and id
RouteDeclarations ==
    [permission : {None} \cup PermissionArgs, resource : ResourceArgs]

\* Python's binding of a call's arguments to the parameters of a function:
\* npos positional arguments fill the first parameters, each keyword must
\* name a parameter not yet filled, and no required parameter may stay
\* unfilled; otherwise the call raises TypeError before the body runs.
binds(params, required, npos, keywords) ==
    /\ npos <= Len(params)
    /\ \A k \in keywords : \E i \in (npos + 1) .. Len(params) : params[i] = k
    /\ \A i \in (npos + 1) .. Len(params) :
           params[i] \in required => params[i] \in keywords

\* the part of the store AuditLogger works on
AuditStore == [body |-> audit_events, index |-> audit_index]
\* the event ids in use: in an index, in the body hash, or in a call in
\* progress
UsedIds(store) ==
    {e[2] : e \in store.index}
        \cup {store.body[i].event_id : i \in 1 .. Len(store.body)}
        \cup {audit_pc[w].event.event_id : w \in {v \in Workers : audit_pc[v].pc # 0}}
\* str(uuid.uuid4()): an id that no caller chose and no earlier event got
uuid4(store) ==
    LET big == {i \in UsedIds(store) : i >= 100 /\ i < 1000}
    IN  IF big = {} THEN 100
        ELSE 1 + CHOOSE m \in big : \A i \in big : i <= m
\* AuditEvent(...) without event_id and timestamp: both are assigned
AuditEvent(store, event_type, user_id, status, resource) ==
    [event_id |-> uuid4(store), timestamp |-> now, event_type |-> event_type,
     user_id |-> user_id, status |-> status, resource |-> resource]

\* query_events(..., limit: int = 100)
default_limit == 100
\* the sorted sets AuditLogger keeps
TimestampIndex == <<"timestamp", "">>
TypeIndex(event_type) == <<"type", event_type>>
UserIndex(user_id) == <<"user", user_id>>
\* ZADD key {member: score}: the member gets this score in the sorted set
zadd(index, key, member, score) ==
    {e \in index : ~(e[1] = key /\ e[2] = member)} \cup {<<key, member, score>>}
\* HSET "audit:events" event_id body: a new field, or the field overwritten
hset(body, event) ==
    IF \E i \in 1 .. Len(body) : body[i].event_id = event.event_id
    THEN [i \in 1 .. Len(body) |->
             IF body[i].event_id = event.event_id THEN event ELSE body[i]]
    ELSE Append(body, event)
\* HGET "audit:events" event_id
hget(body, event_id) ==
    IF \E i \in 1 .. Len(body) : body[i].event_id = event_id
    THEN Some(body[CHOOSE i \in 1 .. Len(body) : body[i].event_id = event_id])
    ELSE Nothing

\* the n-th store command of AuditLogger.log_event, n = 1 .. 4: the
\* timestamp index, the type index, the user index when the event has a
\* user, the event body
log_event_command(store, event, n) ==
    CASE n = 1 ->
           [store EXCEPT !.index = zadd(@, TimestampIndex, event.event_id,
                                        event.timestamp)]
      [] n = 2 ->
           [store EXCEPT !.index = zadd(@, TypeIndex(event.event_type),
                                        event.event_id, event.timestamp)]
      [] n = 3 ->
           IF event.user_id # None
           THEN [store EXCEPT !.index = zadd(@, UserIndex(event.user_id),
                                             event.event_id, event.timestamp)]
           ELSE store
      [] n = 4 -> [store EXCEPT !.body = hset(@, event)]

\* AuditLogger.log_event run to its end
log_event(store, event) ==
    log_event_command(
        log_event_command(
            log_event_command(log_event_command(store, event, 1), event, 2),
            event, 3),
        event, 4)

\* AuditLogger.get_event_by_id
get_event_by_id(event_id) == hget(audit_events, event_id)

\* ZREVRANGEBYSCORE key max min LIMIT 0 num: the members with a score in
\* [min, max], highest score first (equal scores: highest member first), at
\* most num of them; max = NoneInt stands for +inf.  The order of the reply
\* is not kept.
zrevrangebyscore(index, key, max, min, num) ==
    LET hits == {e \in index : /\ e[1] = key /\ e[3] >= min
                               /\ (max = NoneInt \/ e[3] <= max)}
        before(a, b) == a[3] > b[3] \/ (a[3] = b[3] /\ a[2] > b[2])
    IN  IF Cardinality(hits) <= num
        THEN {e[2] : e \in hits}
        ELSE {e[2] : e \in {h \in hits :
                 Cardinality({g \in hits : before(g, h)}) < num}}

\* AuditLogger.query_events(start_time=, end_time=, limit=): no event type
\* and no user, so the timestamp index is read; an id without a body is
\* skipped
query_events(start_time, end_time, limit) ==
    LET start_ts == IF start_time # NoneInt THEN start_time ELSE 0
        event_ids == zrevrangebyscore(audit_index, TimestampIndex, end_time,
                                      start_ts, limit)
    IN  {hget(audit_events, id)[1] :
            id \in {i \in event_ids : hget(audit_events, i) # Nothing}}

\* AuditLogger.export_events: query_events with its default limit
export_events(start_time, end_time) ==
    LET events == query_events(start_time, end_time, default_limit)
    IN  [events |-> events,
         metadata |-> [total_events |-> Cardinality(events),
                       time_range |-> [start |-> start_time, end |-> end_time]]]

\* a call of one of audit.py's helper functions
audit_call(events, params, required, npos, keywords, event) ==
    IF binds(params, required, npos, keywords)
    THEN [raised |-> FALSE, events |-> log_event(events, event)]
    ELSE [raised |-> TRUE, events |-> events]

\* audit.log_auth_success(user_id, api_key_id, ip_address, redis_client)
log_auth_success(events, npos, keywords) ==
    audit_call(events,
               <<"user_id", "api_key_id", "ip_address", "redis_client">>,
               {"user_id", "api_key_id", "ip_address", "redis_client"},
               npos, keywords,
               AuditEvent(events, "authentication", None, "success",
                          <<None, None>>))

\* audit.log_auth_failure(ip_address, reason, redis_client, api_key_id=None)
log_auth_failure(events, npos, keywords) ==
    audit_call(events,
               <<"ip_address", "reason", "redis_client", "api_key_id">>,
               {"ip_address", "reason", "redis_client"},
               npos, keywords,
               AuditEvent(events, "authentication", None, "failure",
                          <<None, None>>))

\* audit.log_api_request(request, user_id, api_key_id, status_code,
\* redis_client): the event it builds is of type api.request, resource the
\* endpoint
log_api_request(events, npos, keywords, path) ==
    audit_call(events,
               <<"request", "user_id", "api_key_id", "status_code",
                 "redis_client">>,
               {"request", "user_id", "api_key_id", "status_code",
                "redis_client"},
               npos, keywords,
               AuditEvent(events, "api.request", None, "success",
                          <<"endpoint", path>>))

\* the keyword arguments of the three calls of log_api_request in
\* integration.py (lines 176-190, 211-219, 260-270)
RequestedKeywords ==
    {"event_type", "action", "status", "message", "user_id", "api_key_id",
     "ip_address", "metadata"}
ErrorKeywords ==
    {"event_type", "action", "status", "message", "api_key_id", "ip_address"}
DeniedKeywords ==
    {"event_type", "action", "status", "message", "api_key_id", "ip_address",
     "resource_type", "resource_id"}

\* what the application behind the security middleware answers
RouteResult(raised, status, called, events, denied, known) ==
    [raised |-> raised, status |-> status, handler |-> called,
     events |-> events, denied |-> denied, role_cache |-> known]

\* the inner function of check_permission_dependency, run by the route before
\* its handler; state_api_key is request.state.api_key when the attribute
\* is set ("" for None)
dependency(request, route, state_api_key, events, handler_status, t) ==
    IF route.permission = None \/ ~security.rbac_enabled
    THEN RouteResult(FALSE, handler_status, TRUE, events, FALSE, role_cache)
    ELSE IF state_api_key = Nothing
    THEN RouteResult(FALSE, 401, FALSE, events, FALSE, role_cache)
    ELSE IF ~security.rbac_manager
    THEN RouteResult(TRUE, 0, FALSE, events, FALSE, role_cache)
    ELSE LET hp == has_permission(state_api_key[1], route.permission,
                                  route.resource, "none", t)
             logged == log_api_request(events, 1, DeniedKeywords, request.path)
         IN  IF hp.result
             THEN RouteResult(FALSE, handler_status, TRUE, events, FALSE, hp.cache)
             ELSE IF security.audit_logger /\ logged.raised
             THEN RouteResult(TRUE, 0, FALSE, logged.events, TRUE, hp.cache)
             ELSE IF security.audit_logger
             THEN RouteResult(FALSE, 403, FALSE, logged.events, TRUE, hp.cache)
             ELSE RouteResult(FALSE, 403, FALSE, events, TRUE, hp.cache)

\* "try: response = await call_next(request)" of the middleware with its
\* exception handler: an exception of the application is logged when the
\* request state holds a credential and answered 500
call_next(request, route, state_api_key, events, handler_status, t) ==
    LET r == dependency(request, route, state_api_key, events, handler_status, t)
        logged == log_api_request(r.events, 1, ErrorKeywords, request.path)
    IN  IF ~r.raised
        THEN r
        ELSE IF state_api_key # Nothing /\ security.audit_logger
        THEN IF logged.raised
             THEN [r EXCEPT !.events = logged.events]
             ELSE [r EXCEPT !.raised = FALSE, !.status = 500,
                            !.events = logged.events]
        ELSE [r EXCEPT !.raised = FALSE, !.status = 500]

\* the middleware from "request.state.api_key = api_key" on (lines 171-190)
log_request(request, route, events, handler_status, t) ==
    LET logged == log_api_request(events, 1, RequestedKeywords, request.path)
    IN  IF security.audit_logger /\ logged.raised
        THEN RouteResult(TRUE, 0, FALSE, logged.events, FALSE, role_cache)
        ELSE call_next(request, route, Some(request.api_key),
                       IF security.audit_logger THEN logged.events ELSE events,
                       handler_status, t)

\* the middleware's processing of a credential whose role was found
\* (lines 143-169): the allowlist test, then the success event
check_ip_whitelist(request, route, handler_status, t) ==
    LET ip_whitelist == Lookup(apikey_ip_whitelist, request.api_key)
        failure == log_auth_failure(AuditStore, 1,
                                    {"api_key_id", "ip_address", "reason"})
        success == log_auth_success(AuditStore, 1,
                                    {"api_key_id", "ip_address"})
    IN  IF ip_whitelist # Nothing /\ ip_whitelist[1] # <<>>
           /\ \A i \in 1 .. Len(ip_whitelist[1]) :
                  ip_whitelist[1][i] # request.client_ip
        THEN IF security.audit_logger /\ failure.raised
             THEN RouteResult(TRUE, 0, FALSE, failure.events, FALSE, role_cache)
             ELSE RouteResult(FALSE, 403, FALSE,
                              IF security.audit_logger
                              THEN failure.events ELSE AuditStore,
                              FALSE, role_cache)
        ELSE IF security.audit_logger /\ success.raised
        THEN RouteResult(TRUE, 0, FALSE, success.events, FALSE, role_cache)
        ELSE log_request(request, route,
                         IF security.audit_logger
                         THEN success.events ELSE AuditStore,
                         handler_status, t)

\* SecurityIntegration._security_middleware_dispatch
security_middleware_dispatch(request, route, handler_status, t) ==
    IF request.path \in skipped_paths
    THEN dependency(request, route, Nothing, AuditStore, handler_status, t)
    ELSE IF security.rbac_enabled \/ security.audit_enabled
    THEN IF request.api_key # "" /\ security.rbac_manager
            /\ request.api_key \in DOMAIN apikey
         THEN check_ip_whitelist(request, route, handler_status, t)
         ELSE log_request(request, route, AuditStore, handler_status, t)
    ELSE IF request.api_key # "" /\ ~startswith_legacy(request.api_key)
    THEN RouteResult(FALSE, 401, FALSE, AuditStore, FALSE, role_cache)
    ELSE call_next(request, route, Nothing, AuditStore, handler_status, t)

\* ------------------------------------------------------------------------
\* Actions of the HTTP service and of the administrative tooling
\* ------------------------------------------------------------------------

\* One request through the middleware stack, served when no other exchange
\* is in progress.  resp keeps the exchange and the documents the key stores
\* held for the presented credential.
HttpRequest ==
    /\ resp.op = "none"
    /\ \E route \in Routes, api_key \in CredValues \cup {""},
       client_ip \in ClientIps, fail \in Failures,
       handler_status \in HandlerStatuses :
        \E request \in {[method |-> route.method, path |-> route.path,
                         api_key |-> api_key, client_ip |-> client_ip]} :
        \E r \in {ResponseCache_call(request, fail, handler_status, now)} :
            /\ cache' = r.cache
            /\ cache_origin' =
                   IF r.stored
                   THEN [k \in DOMAIN cache_origin \cup {get_cache_key(request)} |->
                            IF k = get_cache_key(request)
                            THEN [api_key |-> api_key, path |-> route.path,
                                  status |-> r.client.status]
                            ELSE cache_origin[k]]
                   ELSE cache_origin
            /\ rate_limit' = r.rate_limit
            /\ resp' = [op |-> "request", request |-> request, fail |-> fail,
                        time |-> now,
                        traditional |-> Lookup(api_keys, api_key),
                        enterprise |-> Lookup(apikey, api_key),
                        metadata |-> Lookup(apikey_metadata, api_key),
                        raised |-> r.raised, limited |-> r.limited,
                        hit |-> r.hit, auth |-> r.auth,
                        client |-> r.client,
                        stored_after |-> api_key \in DOMAIN api_keys
                                         \/ api_key \in DOMAIN apikey
                                         \/ api_key \in DOMAIN apikey_metadata]
            /\ UNCHANGED <<api_keys, apikey, apikey_metadata, config, now>>
            /\ UNCHANGED <<inflight, rate_log, security, apikey_ip_whitelist, audit_events, audit_index>>
            /\ UNCHANGED rbac_vars
            /\ UNCHANGED idle_vars

\* A direct call of AuthMiddleware.check_auth with a request object.
CheckAuth ==
    /\ resp.op = "none"
    /\ \E route \in Routes, api_key \in CredValues \cup {""},
       client_ip \in ClientIps, fail \in CheckAuthFailures :
        \E request \in {[method |-> route.method, path |-> route.path,
                         api_key |-> api_key, client_ip |-> client_ip]} :
        \E r \in {check_auth(request, fail)} :
            /\ api_keys' = r.stores.api_keys
            /\ apikey' = r.stores.apikey
            /\ apikey_metadata' = r.stores.apikey_metadata
            /\ resp' = [op |-> "check_auth", request |-> request, fail |-> fail,
                        status |-> r.status, detail |-> r.detail,
                        data |-> r.data,
                        stored_after |-> api_key \in DOMAIN r.stores.api_keys
                                         \/ api_key \in DOMAIN r.stores.apikey
                                         \/ api_key \in DOMAIN r.stores.apikey_metadata]
            /\ UNCHANGED <<cache, cache_origin, rate_limit, config, now>>
            /\ UNCHANGED <<inflight, rate_log, security, apikey_ip_whitelist, audit_events, audit_index>>
            /\ UNCHANGED rbac_vars
            /\ UNCHANGED idle_vars

\* One request to an application whose only middleware is the security
\* middleware, for a route declared with or without a required permission.
\* resp keeps the allowlist generate-key stored for the presented credential.
SecurityRequest ==
    /\ resp.op = "none"
    /\ \E path \in {"/api/v1/health", "/api/v1/tools"},
          api_key \in SecurityKeys \cup {""},
          client_ip \in SourceAddresses,
          route \in RouteDeclarations,
          handler_status \in HandlerStatuses :
        \E request \in {[method |-> "GET", path |-> path,
                         api_key |-> api_key, client_ip |-> client_ip]} :
        \E r \in {security_middleware_dispatch(request, route,
                                               handler_status, now)} :
            /\ audit_events' = r.events.body
            /\ audit_index' = r.events.index
            /\ role_cache' = r.role_cache
            /\ resp' = [op |-> "security", request |-> request,
                        route |-> route, raised |-> r.raised,
                        status |-> r.status, handler |-> r.handler,
                        denied |-> r.denied,
                        events_before |-> Len(audit_events),
                        role_found |-> api_key \in DOMAIN apikey,
                        ip_whitelist |->
                            IF api_key \in DOMAIN apikey_metadata
                            THEN apikey_metadata[api_key].ip_whitelist
                            ELSE <<>>]
            /\ UNCHANGED <<api_keys, apikey, apikey_metadata, cache,
                           cache_origin, rate_limit, inflight, rate_log,
                           config, security, apikey_ip_whitelist, now>>
            /\ UNCHANGED <<roles, rbac_api_keys, ret>>
            /\ UNCHANGED idle_vars

\* SecurityIntegration._initialize_components: the RBAC manager is created
\* and assigned; "await initialize_audit_logger(...)" then awaits the
\* AuditLogger that the (synchronous) function returned, which raises
\* TypeError before audit_logger is assigned and ends the method.
InitializeComponents ==
    /\ security.rbac_enabled /\ ~security.rbac_manager
    /\ security' = [security EXCEPT !.rbac_manager = TRUE]
    /\ UNCHANGED <<api_keys, apikey, apikey_metadata, cache, cache_origin,
                   rate_limit, inflight, rate_log, config,
                   apikey_ip_whitelist, audit_events, audit_index, resp, now>>
    /\ UNCHANGED rbac_vars
    /\ UNCHANGED idle_vars

\* ------------------------------------------------------------------------
\* Actions of the audit logger
\* ------------------------------------------------------------------------
\* what the HTTP, RBAC and security state looks like to the audit actions
audit_others ==
    <<api_keys, apikey, apikey_metadata, cache, cache_origin, rate_limit,
      inflight, rate_log, config, security, apikey_ip_whitelist>>

\* the events a caller passes to log_event: with an id of its own or a
\* generated one, stamped with the current time
EventsToLog ==
    {[event_id |-> id, timestamp |-> now, event_type |-> ty, user_id |-> u,
      status |-> "success", resource |-> <<None, None>>] :
        id \in EventIds \cup {uuid4(AuditStore)}, ty \in EventTypes,
        u \in {None, "u1"}}

\* A worker calls log_event(event): nothing is written yet.
LogEventBegin(w) ==
    /\ audit_pc[w].pc = 0
    /\ \E event \in EventsToLog :
        /\ event.event_id \in UsedIds(AuditStore)
           \/ Cardinality({i \in UsedIds(AuditStore) : i < 1000}) < MaxEvents
        /\ audit_pc' = [audit_pc EXCEPT ![w] = [pc |-> 1, event |-> event]]
    /\ UNCHANGED <<audit_events, audit_index, audit_returned, resp, now>>
    /\ UNCHANGED audit_others
    /\ UNCHANGED rbac_vars
    /\ UNCHANGED non_audit_vars

\* The next store command of a log_event call is executed; after the fourth
\* the call returns the event id.
LogEventCommand(w) ==
    /\ audit_pc[w].pc # 0
    /\ \E r \in {log_event_command(AuditStore, audit_pc[w].event, audit_pc[w].pc)} :
        /\ audit_events' = r.body
        /\ audit_index' = r.index
    /\ IF audit_pc[w].pc = 4
       THEN /\ audit_pc' = [audit_pc EXCEPT ![w] = NoCall]
            /\ audit_returned' =
                   IF audit_pc[w].event.event_id \in DOMAIN audit_returned
                   THEN audit_returned
                   ELSE [i \in DOMAIN audit_returned \cup {audit_pc[w].event.event_id} |->
                            IF i = audit_pc[w].event.event_id
                            THEN audit_pc[w].event ELSE audit_returned[i]]
       ELSE /\ audit_pc' = [audit_pc EXCEPT ![w].pc = @ + 1]
            /\ UNCHANGED audit_returned
    /\ UNCHANGED <<resp, now>>
    /\ UNCHANGED audit_others
    /\ UNCHANGED rbac_vars
    /\ UNCHANGED non_audit_vars

\* The next store command of a log_event call raises (connection lost,
\* timeout): log_event has no handler, the exception ends the call.
LogEventRaises(w) ==
    /\ audit_pc[w].pc # 0
    /\ audit_pc' = [audit_pc EXCEPT ![w] = NoCall]
    /\ UNCHANGED <<audit_events, audit_index, audit_returned, resp, now>>
    /\ UNCHANGED audit_others
    /\ UNCHANGED rbac_vars
    /\ UNCHANGED non_audit_vars

\* get_event_by_id(event_id), for an id of a call made here or for the
\* first of the events found at start-up
GetEventById ==
    /\ resp.op = "none"
    /\ \E event_id \in {i \in UsedIds(AuditStore) : i <= 1001} \cup EventIds :
        resp' = [op |-> "get_event_by_id", event_id |-> event_id,
                 result |-> get_event_by_id(event_id)]
    /\ UNCHANGED <<audit_events, audit_index, audit_pc, audit_returned, now>>
    /\ UNCHANGED audit_others
    /\ UNCHANGED rbac_vars
    /\ UNCHANGED non_audit_vars

\* the ids held by one of the sorted sets
IndexedIds(key) == {e[2] : e \in {x \in audit_index : x[1] = key}}
\* the ids that have a body in the hash
BodyIds == {audit_events[i].event_id : i \in 1 .. Len(audit_events)}

\* the logged events, i.e. those whose log_event call returned, with a
\* timestamp in [start_time, end_time] (NoneInt: no bound on that side)
LoggedInRange(start_time, end_time) ==
    {id \in DOMAIN audit_returned :
        /\ start_time = NoneInt \/ audit_returned[id].timestamp >= start_time
        /\ end_time = NoneInt \/ audit_returned[id].timestamp <= end_time}

\* export_events(start_time, end_time); resp also keeps which logged events
\* lay in the requested range at the time of the call, and whether the call
\* was made while no log_event call was under way and every indexed id had
\* its body
ExportEvents ==
    /\ resp.op = "none"
    /\ \E start_time \in {NoneInt, 1}, end_time \in {NoneInt, 1} :
        \E r \in {export_events(start_time, end_time)} :
            resp' = [op |-> "export_events", start_time |-> start_time,
                     end_time |-> end_time,
                     exported |-> {e.event_id : e \in r.events},
                     total_events |-> r.metadata.total_events,
                     logged |-> LoggedInRange(start_time, end_time),
                     settled |-> /\ \A w \in Workers : audit_pc[w] = NoCall
                                 /\ \A e \in audit_index : e[2] \in BodyIds]
    /\ UNCHANGED <<audit_events, audit_index, audit_pc, audit_returned, now>>
    /\ UNCHANGED audit_others
    /\ UNCHANGED rbac_vars
    /\ UNCHANGED non_audit_vars

\* ------------------------------------------------------------------------
\* BatchProcessor
\* ------------------------------------------------------------------------
\* BatchJob(agent=agent, inputs=inputs): the id is generated, the status is
\* "pending", no results, no error
BatchJob(id, agent, inputs) ==
    [id |-> id, agent |-> agent, inputs |-> inputs, status |-> "pending",
     results |-> <<>>, error |-> Nothing]

\* the lookup function handed to start_processing, called as
\* get_workflow_func(job.agent) by the processor loop.  Declared with def
\* it returns the agent's workflow, or None when the import fails; declared
\* with async def, as in main.py, the call returns a coroutine object.
get_workflow_func(kind, agent_name) ==
    IF kind = "async def" THEN "coroutine"
    ELSE IF agent_name \in KnownAgents THEN "workflow"
    ELSE None

\* whether `await workflow_func(input_data)` raises: a coroutine object is
\* not callable; the workflow raises on a bad item
workflow_raises(workflow_func, input_data) ==
    workflow_func = "coroutine" \/ input_data = "bad"

\* one pass of a loop that treats an exception of the workflow like a
\* result: the item is reported as a success
process_item_unguarded(results, workflow_func, input_data) ==
    Append(results, [status |-> "success", data |-> input_data])

\* one pass of process_job's loop over job.inputs
process_item(results, workflow_func, input_data) ==
    IF workflow_raises(workflow_func, input_data)
    THEN Append(results, [status |-> "error", data |-> input_data])
    ELSE Append(results, [status |-> "success", data |-> input_data])

\* RPOP "batch:queue" without removing the element
rpeek(queue) == [job_id |-> queue[Len(queue)], queue |-> queue]

\* RPOP "batch:queue" on a non-empty list: the last element is removed
rpop(queue) ==
    [job_id |-> queue[Len(queue)], queue |-> SubSeq(queue, 1, Len(queue) - 1)]

\* the history kept about the jobs: the statuses stored for each job in
\* order, the items a workflow was run on, those among them run while the
\* stored status was completed or failed, the jobs process_job returned
\* (with whether its first save went through), and the jobs whose loop
\* iteration ended; further the pops in order with the loop that made each,
\* the jobs submitted while a loop was running, and whether a store command
\* ever failed without effect
NoBatchLog ==
    [history |-> <<>>, executed |-> {}, late |-> {}, returned |-> <<>>,
     handled |-> {}, taken |-> <<>>, live |-> {}, outage |-> FALSE]

\* a BatchProcessor as constructed: not processing, no thread; threads are
\* the loops it started so far
NotProcessing == [processing |-> FALSE, thread |-> None, threads |-> {}]

\* ------------------------------------------------------------------------
\* Actions of the RBAC manager that write: create_role, create_api_key
\* ------------------------------------------------------------------------
\* what these actions leave alone
admin_others ==
    <<now, http_vars, audit_pc, audit_returned, batch_vars, startup>>

\* f with the value v at x
Put(f, x, v) == [y \in DOMAIN f \cup {x} |-> IF y = x THEN v ELSE f[y]]

\* RBACManager.create_role(name, ..., permissions, ..., parent_roles): the
\* role get_role finds is returned; otherwise the role is written with one
\* pipeline (set and sadd) and cached.  fail = "pipe": the pipeline raises.
create_role(name, args, fail) ==
    LET g == get_role(role_cache, name, fail)
    IN  IF g.role # Nothing
        THEN [role |-> g.role, raised |-> FALSE, cache |-> g.cache,
              store |-> roles]
        ELSE IF fail = "pipe"
        THEN [role |-> Nothing, raised |-> TRUE, cache |-> g.cache,
              store |-> roles]
        ELSE [role |-> Some(args), raised |-> FALSE,
              cache |-> Put(g.cache, name, args),
              store |-> Put(roles, name, args)]

\* ret also keeps the role the store held under the name before the call
\* and the one it holds after it
CreateRole ==
    \E name \in CreatedRoleNames, args \in RoleArgs,
       fail \in {"none", "roles", "pipe"} :
        \E r \in {create_role(name, args, fail)} :
            /\ roles' = r.store
            /\ role_cache' = r.cache
            /\ ret' = [op |-> "create_role", name |-> name, args |-> args,
                       fail |-> fail, role |-> r.role, raised |-> r.raised,
                       before |-> Lookup(roles, name),
                       after |-> Lookup(r.store, name)]
            /\ UNCHANGED <<rbac_api_keys, admin_vars>>
            /\ UNCHANGED admin_others

\* secrets.token_urlsafe(32): a token no credential has yet
token_urlsafe ==
    Tokens[CHOOSE i \in 1 .. Len(Tokens) :
              /\ Tokens[i] \notin DOMAIN rbac_api_keys
              /\ \A j \in 1 .. i - 1 : Tokens[j] \in DOMAIN rbac_api_keys]

\* create_api_key in worker w, up to its first answer from the store:
\* sismember on the names; a registered name raises ValueError.
CreateApiKeyBegin(w) ==
    /\ create_pc[w].pc = 0
    /\ \E name \in KeyNames, role_list \in {<<>>, <<"A">>},
          expires_in \in {NoneInt, 0, 1} :
        IF name \in rbac_api_key_names
        THEN /\ ret' = [op |-> "create_api_key", name |-> name,
                        raised |-> TRUE]
             /\ UNCHANGED create_pc
        ELSE /\ Cardinality(DOMAIN rbac_api_keys)
                    + Cardinality({v \in Workers : create_pc[v].pc # 0}) < MaxKeys
             /\ create_pc' = [create_pc EXCEPT ![w] =
                    [pc |-> 1, name |-> name, roles |-> role_list,
                     expiration |-> IF Truthy(expires_in)
                                    THEN now + expires_in ELSE NoneInt]]
             /\ UNCHANGED ret
    /\ UNCHANGED <<roles, role_cache, rbac_api_keys, rbac_api_key_names,
                   rbac_key_name>>
    /\ UNCHANGED admin_others

\* the rest of the call: the credential is built and written with one
\* pipeline (hset on the credentials, sadd on the names), then returned
CreateApiKeyExecute(w) ==
    /\ create_pc[w].pc = 1
    /\ \E key \in {token_urlsafe} :
        /\ rbac_api_keys' =
               Put(rbac_api_keys, key,
                   [is_active |-> TRUE, expiration |-> create_pc[w].expiration,
                    roles |-> create_pc[w].roles])
        /\ rbac_key_name' = Put(rbac_key_name, key, create_pc[w].name)
        /\ rbac_api_key_names' = rbac_api_key_names \cup {create_pc[w].name}
        /\ ret' = [op |-> "create_api_key", name |-> create_pc[w].name,
                   raised |-> FALSE, key |-> key]
    /\ create_pc' = [create_pc EXCEPT ![w] = NoCall]
    /\ UNCHANGED <<roles, role_cache>>
    /\ UNCHANGED admin_others

\* ------------------------------------------------------------------------
\* Actions of the batch processor
\* ------------------------------------------------------------------------
batch_others ==
    <<now, rbac_vars, http_vars, audit_pc, audit_returned, admin_vars, startup>>

\* _save_job(job): SET "batch:job:{id}"
save_job(jobs, job) == Put(jobs, job.id, job)

\* the history after the status of job has been stored
Stored(log, job) ==
    [log EXCEPT !.history =
        Put(@, job.id, IF job.id \in DOMAIN @
                       THEN Append(@[job.id], job.status)
                       ELSE <<job.status>>)]

Terminal(status) == status \in {"completed", "failed"}

\* how an awaited store command ends: it returns; it raises and nothing is
\* written (the store is unreachable); or it is carried out and the await
\* raises (the reply is lost, or the client is the synchronous one, whose
\* replies cannot be awaited)
StoreOutcomes == {"ok", "error", "applied"}
Applied(outcome) == outcome \in {"ok", "applied"}

\* the loops that run: started, neither ended nor dead
Running(w) == batch_worker[w].pc \in 1 .. 4
\* the process whose BatchProcessor started loop w
owner(w) == CHOOSE p \in Workers : w \in batch_processor[p].threads
\* the history after a store command ended with the given outcome
Outcome(log, outcome) == [log EXCEPT !.outage = @ \/ outcome = "error"]

\* submit_job(agent, inputs): the job is stored and its id pushed on the
\* head of the queue
SubmitJob ==
    /\ Cardinality(DOMAIN batch_jobs) < MaxJobs
    /\ \E agent \in Agents, inputs \in InputLists :
        \E job \in {BatchJob(Cardinality(DOMAIN batch_jobs) + 1, agent, inputs)} :
            /\ batch_jobs' = save_job(batch_jobs, job)
            /\ batch_queue' = <<job.id>> \o batch_queue
            /\ batch_log' =
                   [Stored(batch_log, job) EXCEPT
                       !.live = IF \E w \in Workers : Running(w)
                                THEN @ \cup {job.id} ELSE @]
    /\ UNCHANGED <<batch_worker, batch_processor>>
    /\ UNCHANGED batch_others

\* start_processing(get_workflow_func) in process p: nothing when
\* _processing is set; otherwise the flag is set and a thread running the
\* processor loop is started and kept in _processor_thread
StartProcessing(p) ==
    /\ ~batch_processor[p].processing
    /\ \E v \in Workers : batch_worker[v].pc = 0
    /\ \E kind \in LookupKinds :
        LET w == CHOOSE v \in Workers : batch_worker[v].pc = 0
        IN  /\ batch_worker' =
                   [batch_worker EXCEPT ![w] = [pc |-> 1, lookup |-> kind]]
            /\ batch_processor' =
                   [batch_processor EXCEPT
                       ![p] = [processing |-> TRUE, thread |-> w,
                               threads |-> @.threads \cup {w}]]
    /\ UNCHANGED <<batch_jobs, batch_queue, batch_log>>
    /\ UNCHANGED batch_others

\* stop_processing() in process p: nothing when _processing is not set;
\* otherwise the flag is cleared and the thread joined for 5 s.  A loop
\* waiting for work sees the flag and ends within that time; a loop with a
\* job in flight does not, the join times out and the thread goes on.  The
\* reference to the thread is dropped either way.
StopProcessing(p) ==
    /\ batch_processor[p].processing
    /\ batch_processor' =
           [batch_processor EXCEPT ![p].processing = FALSE,
                                   ![p].thread = None]
    /\ batch_worker' =
           IF batch_worker[batch_processor[p].thread].pc = 1
           THEN [batch_worker EXCEPT ![batch_processor[p].thread] = [pc |-> 7]]
           ELSE batch_worker
    /\ UNCHANGED <<batch_jobs, batch_queue, batch_log>>
    /\ UNCHANGED batch_others

\* "while self._processing" found false by a loop whose join timed out:
\* the loop ends
LoopExit(w) ==
    /\ batch_worker[w].pc = 1
    /\ ~batch_processor[owner(w)].processing
    /\ batch_worker' = [batch_worker EXCEPT ![w] = [pc |-> 7]]
    /\ UNCHANGED <<batch_jobs, batch_queue, batch_log, batch_processor>>
    /\ UNCHANGED batch_others

\* One iteration of process_loop up to the call of process_job, entered
\* while _processing is set: the next id is popped, the job read and its
\* workflow looked up; without a workflow the job is stored as failed and
\* the iteration ends.  When the await of the pop raises, the exception
\* ends the loop.
NextJob(w) ==
    /\ batch_worker[w].pc = 1
    /\ batch_processor[owner(w)].processing
    /\ batch_queue # <<>>
    /\ \E popped \in {rpop(batch_queue)}, outcome \in StoreOutcomes :
        LET job == batch_jobs[popped.job_id]
            workflow_func == get_workflow_func(batch_worker[w].lookup, job.agent)
            failed == [job EXCEPT !.status = "failed",
                                  !.error = <<"Agent", job.agent, "not found">>]
            log == [Outcome(batch_log, outcome) EXCEPT
                       !.taken = IF Applied(outcome)
                                 THEN Append(@, <<popped.job_id, w>>) ELSE @]
        IN  /\ batch_queue' = IF Applied(outcome) THEN popped.queue
                                                  ELSE batch_queue
            /\ IF outcome # "ok"
               THEN /\ batch_worker' = [batch_worker EXCEPT ![w] = [pc |-> 5]]
                    /\ batch_log' = log
                    /\ UNCHANGED batch_jobs
               ELSE IF workflow_func # None
               THEN /\ batch_worker' = [batch_worker EXCEPT ![w] =
                           [pc |-> 2, lookup |-> @.lookup, job |-> job,
                            workflow_func |-> workflow_func]]
                    /\ batch_log' = log
                    /\ UNCHANGED batch_jobs
               ELSE /\ batch_jobs' = save_job(batch_jobs, failed)
                    /\ batch_log' =
                           [Stored(log, failed) EXCEPT
                               !.handled = @ \cup {job.id}]
                    /\ UNCHANGED batch_worker
    /\ UNCHANGED batch_processor
    /\ UNCHANGED batch_others

\* process_job up to its loop: the job is stored as processing; when the
\* await of the save raises, the outer handler marks the job failed.
ProcessJobBegin(w) ==
    /\ batch_worker[w].pc = 2
    /\ \E outcome \in StoreOutcomes :
        LET job == [batch_worker[w].job EXCEPT !.status = "processing"]
        IN  /\ IF Applied(outcome)
               THEN /\ batch_jobs' = save_job(batch_jobs, job)
                    /\ batch_log' = Stored(batch_log, job)
               ELSE /\ batch_log' = Outcome(batch_log, outcome)
                    /\ UNCHANGED batch_jobs
            /\ batch_worker' = [batch_worker EXCEPT ![w] =
                   IF outcome = "ok"
                   THEN [pc |-> 3, lookup |-> @.lookup, job |-> job,
                         workflow_func |-> @.workflow_func, results |-> <<>>]
                   ELSE [pc |-> 4, lookup |-> @.lookup,
                         workflow_func |-> @.workflow_func,
                         job |-> [job EXCEPT !.status = "failed",
                                             !.error = <<"store error">>]]]
    /\ UNCHANGED <<batch_queue, batch_processor>>
    /\ UNCHANGED batch_others

\* process_job's loop: the next input is handed to the workflow
ProcessItem(w) ==
    /\ batch_worker[w].pc = 3
    /\ Len(batch_worker[w].results) < Len(batch_worker[w].job.inputs)
    /\ LET me == batch_worker[w]
           i == Len(me.results) + 1
       IN  /\ batch_worker' = [batch_worker EXCEPT ![w].results =
                  process_item(@, me.workflow_func, me.job.inputs[i])]
           /\ batch_log' =
                  IF me.workflow_func = "workflow"
                  THEN [batch_log EXCEPT
                          !.executed = @ \cup {<<me.job.id, i>>},
                          !.late = IF Terminal(batch_jobs[me.job.id].status)
                                   THEN @ \cup {<<me.job.id, i>>} ELSE @]
                  ELSE batch_log
    /\ UNCHANGED <<batch_jobs, batch_queue, batch_processor>>
    /\ UNCHANGED batch_others

\* process_job after its loop, or after its outer handler: the job, now
\* completed with its results or failed, is stored and returned, and the
\* iteration ends; when the await of the save raises, the exception leaves
\* process_job and ends the loop.
ProcessJobEnd(w) ==
    /\ \/ batch_worker[w].pc = 4
       \/ /\ batch_worker[w].pc = 3
          /\ Len(batch_worker[w].results) = Len(batch_worker[w].job.inputs)
    /\ \E outcome \in StoreOutcomes :
        LET me == batch_worker[w]
            job == IF me.pc = 4 THEN me.job
                   ELSE [me.job EXCEPT !.results = me.results,
                                       !.status = "completed"]
        IN  /\ batch_jobs' = IF Applied(outcome) THEN save_job(batch_jobs, job)
                                                 ELSE batch_jobs
            /\ batch_log' =
                   IF outcome = "ok"
                   THEN [Stored(batch_log, job) EXCEPT
                            !.handled = @ \cup {job.id},
                            !.returned = Put(@, job.id,
                                [job |-> job, began |-> me.pc = 3,
                                 workflow_func |-> me.workflow_func])]
                   ELSE IF outcome = "applied" THEN Stored(batch_log, job)
                   ELSE Outcome(batch_log, outcome)
            /\ batch_worker' = [batch_worker EXCEPT ![w] =
                   IF outcome = "ok" THEN [pc |-> 1, lookup |-> me.lookup]
                   ELSE [pc |-> 5]]
    /\ UNCHANGED <<batch_queue, batch_processor>>
    /\ UNCHANGED batch_others

\* ------------------------------------------------------------------------
\* Start-up of the service (main.py)
\* ------------------------------------------------------------------------
\* create_redis_client(max_retries=5, retry_delay=2)
max_retries == 5
retry_delay == 2
\* how one connection attempt (Redis(...), client.ping()) ends
PingOutcomes == {"pong", "ConnectionError", "TimeoutError"}

\* a loop that never gives up: every ConnectionError is retried
attempt_result_unbounded(attempt, outcome) ==
    IF outcome = "pong" THEN "return"
    ELSE IF outcome # "ConnectionError" THEN "raise"
    ELSE "retry"

\* one pass of create_redis_client's loop, attempt = 0 .. max_retries - 1:
\* the client is returned, the ConnectionError of the last attempt and any
\* other exception are raised, an earlier ConnectionError is retried
attempt_result(attempt, outcome) ==
    IF outcome = "pong" THEN "return"
    ELSE IF outcome # "ConnectionError" THEN "raise"
    ELSE IF attempt = max_retries - 1 THEN "raise"
    ELSE "retry"

\* main.py as its import begins
Importing ==
    [pc |-> "connect", attempts |-> 0, failed |-> 0, after_success |-> 0,
     redis_client |-> FALSE, batch_processor |-> FALSE, middleware |-> {}]

startup_others ==
    <<rbac_vars, api_keys, apikey, apikey_metadata, cache, cache_origin,
      rate_limit, inflight, rate_log, config, security, apikey_ip_whitelist,
      audit_events, audit_index, audit_pc, audit_returned, admin_vars,
      batch_vars>>

\* One connection attempt of create_redis_client.  A raise is caught at
\* module level (except ConnectionError / except Exception): the service
\* goes on without client and batch processor.
ConnectAttempt ==
    /\ startup.pc = "connect"
    /\ \E outcome \in PingOutcomes :
        \E result \in {attempt_result(startup.attempts, outcome)} :
            /\ startup' =
                   [startup EXCEPT
                       !.attempts = @ + 1,
                       !.failed = IF outcome = "pong" THEN @ ELSE @ + 1,
                       !.after_success =
                           IF startup.redis_client THEN @ + 1 ELSE @,
                       !.redis_client = result = "return",
                       !.pc = CASE result = "return" -> "init"
                                [] result = "raise" -> "app"
                                [] OTHER -> "connect"]
            /\ now' = IF result = "retry" THEN now + retry_delay ELSE now
    /\ UNCHANGED resp
    /\ UNCHANGED startup_others

\* The rest of the try block: the second ping, initialize_api_keys, the
\* batch processor.  A false ping or an exception leaves the service
\* without client and batch processor.
InitializeRedisFeatures ==
    /\ startup.pc = "init"
    /\ \E outcome \in {"ok", "ping false", "raises"} :
        startup' = [startup EXCEPT !.pc = "app",
                                   !.redis_client = outcome = "ok",
                                   !.batch_processor = outcome = "ok"]
    /\ UNCHANGED <<resp, now>>
    /\ UNCHANGED startup_others

\* The application is assembled: the three store-backed middlewares only
\* with a client, the metrics middleware and the routers always.
AddMiddleware ==
    /\ startup.pc = "app"
    /\ startup' =
           [startup EXCEPT
               !.pc = "started",
               !.middleware =
                   IF startup.redis_client
                   THEN {"AuthMiddleware", "RateLimiter", "ResponseCache",
                         "MetricsMiddleware"}
                   ELSE {"MetricsMiddleware"}]
    /\ UNCHANGED <<resp, now>>
    /\ UNCHANGED startup_others

\* the routes of the API router, which carry Depends(get_api_key)
ApiRouterPaths == {"/api/v1/tools", "/api/v1/logout"}
\* the routes requests are sent to, with the root route
ServedRoutes == Routes \cup {[method |-> "GET", path |-> "/"]}

\* A request to the service started without the store: no middleware but
\* the metrics one is in front of the routes; a route of the API router
\* still asks for the credential header (APIKeyHeader with auto_error) and
\* answers 403 without it.
ServeReduced ==
    /\ startup.pc = "started"
    /\ ~startup.redis_client
    /\ resp.op = "none"
    /\ \E route \in ServedRoutes, api_key \in CredValues \cup {""},
          handler_status \in HandlerStatuses :
        \E request \in {[method |-> route.method, path |-> route.path,
                         api_key |-> api_key, client_ip |-> "ip1"]} :
            resp' = [op |-> "reduced", request |-> request,
                     handler_status |-> handler_status,
                     client |->
                         IF route.path \in ApiRouterPaths /\ api_key = ""
                         THEN [status |-> 403,
                               content |-> <<"detail", "Not authenticated">>,
                               headers |-> {"content-type"}]
                         ELSE handler(request, handler_status)]
    /\ UNCHANGED <<startup, now>>
    /\ UNCHANGED startup_others

\* the smallest element of a non-empty set of timestamps
Oldest(S) == CHOOSE s \in S : \A u \in S : s <= u

\* check_rate_limit in worker w, first step: the identity and
\* current_time = int(time.time()) are read.
RateLimitBegin(w) ==
    /\ inflight[w].phase = "idle"
    /\ Len(rate_log) + Cardinality({v \in Workers : inflight[v].phase # "idle"})
           < MaxCalls
    /\ \E client_ip \in ClientIps :
           inflight' = [inflight EXCEPT ![w] =
                           [phase |-> "began", client_ip |-> client_ip,
                            current_time |-> now]]
    /\ UNCHANGED <<api_keys, apikey, apikey_metadata, cache, cache_origin,
                   rate_limit, rate_log, config, resp, now>>
    /\ UNCHANGED rbac_vars
    /\ UNCHANGED idle_vars
    /\ UNCHANGED <<security, apikey_ip_whitelist, audit_events, audit_index>>

\* check_rate_limit in worker w, second step: the pipeline of the four
\* commands executes as one transaction, then the count is compared with the
\* limit.  resp keeps the call's outcome, the window it counted and the
\* number of calls of this identity allowed earlier in the same window.
RateLimitExecute(w) ==
    /\ inflight[w].phase = "began"
    /\ \E client_ip \in {inflight[w].client_ip}, t \in {inflight[w].current_time} :
       \E r \in {check_rate_limit(client_ip, t)} :
       \E kept \in {{s \in rate_limit[client_ip] : s > t - window_seconds}} :
           /\ rate_limit' = [rate_limit EXCEPT ![client_ip] = r.window]
           /\ rate_log' = Append(rate_log, [client_ip |-> client_ip, time |-> t,
                                            allowed |-> ~r.limited])
           /\ resp' = [op |-> "check_rate_limit", client_ip |-> client_ip,
                       time |-> t, limited |-> r.limited,
                       request_count |-> r.request_count, reset |-> r.reset,
                       oldest |-> IF kept = {} THEN NoneInt ELSE Oldest(kept),
                       allowed_before |->
                           Cardinality({i \in 1 .. Len(rate_log) :
                               /\ rate_log[i].client_ip = client_ip
                               /\ rate_log[i].allowed
                               /\ rate_log[i].time > t - window_seconds
                               /\ rate_log[i].time <= t})]
    /\ inflight' = [inflight EXCEPT ![w] = Idle]
    /\ UNCHANGED <<api_keys, apikey, apikey_metadata, cache, cache_origin,
                   config, now>>
    /\ UNCHANGED rbac_vars
    /\ UNCHANGED idle_vars
    /\ UNCHANGED <<security, apikey_ip_whitelist, audit_events, audit_index>>

\* Most of a rate-limit window passes, or all of it.
Elapse ==
    /\ now <= MaxTime
    /\ \E d \in {window_seconds - 1, window_seconds} : now' = now + d
    /\ UNCHANGED rbac_vars
    /\ UNCHANGED idle_vars
    /\ UNCHANGED http_vars

\* The middleware stack returns: the exchange is over.
EndOfExchange ==
    /\ resp.op # "none"
    /\ resp' = [op |-> "none"]
    /\ UNCHANGED <<api_keys, apikey, apikey_metadata, cache, cache_origin,
                   rate_limit, inflight, rate_log, config, now>>
    /\ UNCHANGED rbac_vars
    /\ UNCHANGED idle_vars
    /\ UNCHANGED <<security, apikey_ip_whitelist, audit_events, audit_index>>

\* security_manager generate-key: a fresh key with its role and metadata;
\* --expires 0 stores "never".  (The "roles" index set it also touches is
\* not part of a role document.)
GenerateApiKey ==
    \E key \in EntKeys \ (DOMAIN apikey \cup DOMAIN apikey_metadata),
       role \in {"user"}, expires \in ExpiresDays,
       ip_whitelist \in IpWhitelists :
        /\ apikey' = [k \in DOMAIN apikey \cup {key} |->
                          IF k = key THEN role ELSE apikey[k]]
        /\ apikey_metadata' =
               [k \in DOMAIN apikey_metadata \cup {key} |->
                   IF k = key
                   THEN [role |-> role,
                         expires |-> IF expires > 0 THEN now + expires ELSE NoneInt,
                         ip_whitelist |-> ip_whitelist]
                   ELSE apikey_metadata[k]]
        /\ UNCHANGED <<api_keys, cache, cache_origin, rate_limit, config, resp, now>>
        /\ UNCHANGED <<inflight, rate_log, security, apikey_ip_whitelist, audit_events, audit_index>>
        /\ UNCHANGED rbac_vars
        /\ UNCHANGED idle_vars

\* security_manager revoke-key: delete the key and its metadata, if the
\* key exists
RevokeApiKey ==
    \E key_id \in CredValues :
        /\ key_id \in DOMAIN apikey
        /\ apikey' = [k \in DOMAIN apikey \ {key_id} |-> apikey[k]]
        /\ apikey_metadata' =
               [k \in DOMAIN apikey_metadata \ {key_id} |-> apikey_metadata[k]]
        /\ UNCHANGED <<api_keys, cache, cache_origin, rate_limit, config, resp, now>>
        /\ UNCHANGED <<inflight, rate_log, security, apikey_ip_whitelist, audit_events, audit_index>>
        /\ UNCHANGED rbac_vars
        /\ UNCHANGED idle_vars

\* ------------------------------------------------------------------------
\* Actions of the RBAC manager
\* ------------------------------------------------------------------------
HasPermission ==
    \E api_key \in RbacKeys, permission \in PermissionArgs,
       resource \in ResourceArgs, fail \in StoreFailures :
        \E r \in {has_permission(api_key, permission, resource, fail, now)} :
            /\ role_cache' = r.cache
            /\ ret' = [op |-> "has_permission", api_key |-> api_key,
                       permission |-> permission, resource |-> resource,
                       fail |-> fail, time |-> now, logged |-> r.logged,
                       result |-> r.result, raised |-> r.raised]
            /\ UNCHANGED <<roles, rbac_api_keys, now>>
            /\ UNCHANGED idle_vars
            /\ UNCHANGED http_vars

GetEffectivePermissions ==
    \E role_names \in RoleListChoices, fail \in StoreFailures \ {"keys"} :
        \E st \in {get_effective_permissions(role_names, fail)} :
            /\ role_cache' = st.cache
            /\ ret' = [op |-> "get_effective_permissions",
                       role_names |-> role_names, fail |-> fail,
                       logged |-> st.logged,
                       result |-> st.eff, terminated |-> st.terminated]
            /\ UNCHANGED <<roles, rbac_api_keys, now>>
            /\ UNCHANGED idle_vars
            /\ UNCHANGED http_vars

Tick ==
    /\ now < MaxTime
    /\ now' = now + 1
    /\ UNCHANGED rbac_vars
    /\ UNCHANGED idle_vars
    /\ UNCHANGED http_vars

\* SecurityIntegration as constructed with its defaults, before its components
\* are initialized; nothing logged, no allowlist key in the store
SecurityIdle ==
    /\ security = [rbac_enabled |-> TRUE, audit_enabled |-> TRUE,
                   rbac_manager |-> FALSE, audit_logger |-> FALSE]
    /\ apikey_ip_whitelist = <<>>
    /\ audit_events = <<>>
    /\ audit_index = {}

\* no credential registered through create_api_key, no call in progress
AdminIdle ==
    /\ rbac_api_key_names = {}
    /\ rbac_key_name = <<>>
    /\ create_pc = [w \in Workers |-> NoCall]

\* no batch job submitted, the processor loops not started
BatchIdle ==
    /\ batch_jobs = <<>>
    /\ batch_queue = <<>>
    /\ batch_worker = [w \in Workers |-> NoCall]
    /\ batch_log = NoBatchLog
    /\ batch_processor = [p \in Workers |-> NotProcessing]

\* main.py imported with the store reachable at the first attempt
StartupIdle == startup = Started

NonAuditIdle == AdminIdle /\ BatchIdle /\ StartupIdle

\* no log_event call in progress, none returned yet
OthersIdle ==
    /\ audit_pc = [w \in Workers |-> NoCall]
    /\ audit_returned = <<>>
    /\ NonAuditIdle

\* The RBAC specifications leave the HTTP service idle.
HttpIdle ==
    /\ api_keys = <<>>
    /\ apikey = <<>>
    /\ apikey_metadata = <<>>
    /\ cache = <<>>
    /\ cache_origin = <<>>
    /\ rate_limit = [ip \in ClientIps |-> {}]
    /\ inflight = [w \in Workers |-> Idle]
    /\ rate_log = <<>>
    /\ SecurityIdle
    /\ OthersIdle
    /\ config = DefaultConfig
    /\ resp = [op |-> "none"]

\* The store as the manager finds it: roles and credentials written earlier
\* (by this service or by the administrative tooling); the in-process role
\* cache starts empty.  SpecRbac explores two families of stores: any
\* credential record over roles without parent links, and any role graph in
\* which at most one role holds permissions under an active, unexpiring
\* credential that names roles.
Granting(rs) == {r \in DOMAIN rs : rs[r].permissions # {}}
FlatGraph(rs) == \A r \in DOMAIN rs : rs[r].parent_roles = <<>>
PlainKeys(ks) ==
    \A k \in DOMAIN ks :
        ks[k].is_active /\ ks[k].expiration = NoneInt /\ ks[k].roles # <<>>

InitRbac ==
    /\ \E D \in SUBSET RoleNames : roles \in [D -> RoleRecords]
    /\ \A r1, r2 \in Granting(roles) : r1 = r2
    /\ role_cache = <<>>
    /\ \E D \in SUBSET RbacKeys : rbac_api_keys \in [D -> KeyRecords]
    /\ FlatGraph(roles) \/ PlainKeys(rbac_api_keys)
    /\ now = 1
    /\ ret = [op |-> "none"]
    /\ HttpIdle

NextRbac ==
    \/ HasPermission
    \/ Tick

SpecRbac == InitRbac /\ [][NextRbac]_vars

InitRoles ==
    /\ \E D \in SUBSET RoleNames : roles \in [D -> RoleRecords]
    /\ role_cache = <<>>
    /\ rbac_api_keys = <<>>
    /\ now = 1
    /\ ret = [op |-> "none"]
    /\ HttpIdle

NextRoles ==
    \/ GetEffectivePermissions

SpecRoles == InitRoles /\ [][NextRoles]_vars

\* The HTTP service after start-up: the key stores as provisioned (the
\* traditional store by initialize_api_keys or by hand, the enterprise store
\* by the tooling, possibly with its metadata document missing), an empty
\* response cache and no rate-limit windows.
Init ==
    /\ \E D \in SUBSET TradKeys : api_keys \in [D -> TradRecords]
    /\ \E D \in SUBSET EntKeys :
           /\ apikey \in [D -> {"user"}]
           /\ \E M \in SUBSET D : apikey_metadata \in [M -> ProvisionedMetadata]
    /\ cache = <<>>
    /\ cache_origin = <<>>
    /\ rate_limit = [ip \in ClientIps |-> {}]
    /\ inflight = [w \in Workers |-> Idle]
    /\ rate_log = <<>>
    /\ SecurityIdle
    /\ OthersIdle
    /\ config = DefaultConfig
    /\ resp = [op |-> "none"]
    /\ roles = <<>>
    /\ role_cache = <<>>
    /\ rbac_api_keys = <<>>
    /\ ret = [op |-> "none"]
    /\ now = 1

Next ==
    \/ HttpRequest
    \/ CheckAuth
    \/ EndOfExchange
    \/ GenerateApiKey
    \/ RevokeApiKey
    \/ Tick

Spec == Init /\ [][Next]_vars

\* The HTTP service with two provisioned credentials (k1 traditional, k2
\* enterprise) under every configuration of the credential header name and
\* of the cache switch: the requests and what the response cache does.
InitCache ==
    /\ api_keys = [k \in TradKeys |->
                      [format |-> "dict", key |-> k, active |-> "true"]]
    /\ apikey = [k \in EntKeys |-> "user"]
    /\ apikey_metadata = [k \in EntKeys |->
                             [role |-> "user", expires |-> NoneInt,
                              ip_whitelist |-> <<>>]]
    /\ cache = <<>>
    /\ cache_origin = <<>>
    /\ rate_limit = [ip \in ClientIps |-> {}]
    /\ inflight = [w \in Workers |-> Idle]
    /\ rate_log = <<>>
    /\ SecurityIdle
    /\ OthersIdle
    /\ \E h \in HeaderNames, e \in BOOLEAN :
           config = [DefaultConfig EXCEPT !.api_key_header = h,
                                          !.cache_enabled = e]
    /\ resp = [op |-> "none"]
    /\ roles = <<>>
    /\ role_cache = <<>>
    /\ rbac_api_keys = <<>>
    /\ ret = [op |-> "none"]
    /\ now = 1

NextCache ==
    \/ HttpRequest
    \/ EndOfExchange

SpecCache == InitCache /\ [][NextCache]_vars

\* The rate limiter alone: worker processes call check_rate_limit for one
\* identity against the shared store, under a small configured limit, while
\* time passes.
InitRate ==
    /\ api_keys = <<>>
    /\ apikey = <<>>
    /\ apikey_metadata = <<>>
    /\ cache = <<>>
    /\ cache_origin = <<>>
    /\ rate_limit = [ip \in ClientIps |-> {}]
    /\ inflight = [w \in Workers |-> Idle]
    /\ rate_log = <<>>
    /\ SecurityIdle
    /\ OthersIdle
    /\ \E l \in RateLimits :
           config = [DefaultConfig EXCEPT !.requests_per_minute = l]
    /\ resp = [op |-> "none"]
    /\ roles = <<>>
    /\ role_cache = <<>>
    /\ rbac_api_keys = <<>>
    /\ ret = [op |-> "none"]
    /\ now = 1

NextRate ==
    \/ \E w \in Workers : RateLimitBegin(w)
    \/ \E w \in Workers : RateLimitExecute(w)
    \/ Tick
    \/ Elapse

SpecRate == InitRate /\ [][NextRate]_vars

\* The HTTP service of a deployment with a small RATE_LIMIT_RPM and one
\* traditional credential, while time passes.
InitLimited ==
    /\ api_keys = [k \in TradKeys |->
                      [format |-> "dict", key |-> k, active |-> "true"]]
    /\ apikey = <<>>
    /\ apikey_metadata = <<>>
    /\ cache = <<>>
    /\ cache_origin = <<>>
    /\ rate_limit = [ip \in ClientIps |-> {}]
    /\ inflight = [w \in Workers |-> Idle]
    /\ rate_log = <<>>
    /\ SecurityIdle
    /\ OthersIdle
    /\ \E rpm \in RateLimits :
           config = [DefaultConfig EXCEPT !.requests_per_minute = rpm]
    /\ resp = [op |-> "none"]
    /\ roles = <<>>
    /\ role_cache = <<>>
    /\ rbac_api_keys = <<>>
    /\ ret = [op |-> "none"]
    /\ now = 1

NextLimited ==
    \/ HttpRequest
    \/ EndOfExchange
    \/ Tick

SpecLimited == InitLimited /\ [][NextLimited]_vars

\* An application with the security middleware installed: SecurityIntegration
\* constructed with any setting of its RBAC and audit switches, its audit
\* logger absent or assigned by the host application; the RBAC store holds
\* the role A granting "read" and the credential k2 bound to it; enterprise
\* keys are issued and revoked by the administrative tooling.
InitSecurity ==
    /\ api_keys = <<>>
    /\ apikey = <<>>
    /\ apikey_metadata = <<>>
    /\ cache = <<>>
    /\ cache_origin = <<>>
    /\ rate_limit = [ip \in ClientIps |-> {}]
    /\ inflight = [w \in Workers |-> Idle]
    /\ rate_log = <<>>
    /\ config = DefaultConfig
    /\ \E rbac_enabled \in BOOLEAN, audit_enabled \in BOOLEAN,
          audit_logger \in BOOLEAN :
           /\ audit_logger => audit_enabled
           /\ security = [rbac_enabled |-> rbac_enabled,
                          audit_enabled |-> audit_enabled,
                          rbac_manager |-> FALSE,
                          audit_logger |-> audit_logger]
    /\ apikey_ip_whitelist = <<>>
    /\ audit_events = <<>>
    /\ audit_index = {}
    /\ OthersIdle
    /\ resp = [op |-> "none"]
    /\ roles = [n \in {"A"} |-> [permissions |-> {"read"}, parent_roles |-> <<>>]]
    /\ role_cache = <<>>
    /\ rbac_api_keys = [k \in EntKeys |->
                           [is_active |-> TRUE, expiration |-> NoneInt,
                            roles |-> <<"A">>]]
    /\ ret = [op |-> "none"]
    /\ now = 1

NextSecurity ==
    \/ InitializeComponents
    \/ SecurityRequest
    \/ EndOfExchange
    \/ GenerateApiKey
    \/ RevokeApiKey

SpecSecurity == InitSecurity /\ [][NextSecurity]_vars

\* The audit logger used by worker processes sharing the store, which is
\* empty or already holds a number of events logged at time 0.
PreloadedEvents(n) ==
    [i \in 1 .. n |->
        [event_id |-> 1000 + i, timestamp |-> 0, event_type |-> "admin",
         user_id |-> None, status |-> "success", resource |-> <<None, None>>]]
InitAudit ==
    /\ api_keys = <<>>
    /\ apikey = <<>>
    /\ apikey_metadata = <<>>
    /\ cache = <<>>
    /\ cache_origin = <<>>
    /\ rate_limit = [ip \in ClientIps |-> {}]
    /\ inflight = [w \in Workers |-> Idle]
    /\ rate_log = <<>>
    /\ config = DefaultConfig
    /\ security = [rbac_enabled |-> TRUE, audit_enabled |-> TRUE,
                   rbac_manager |-> FALSE, audit_logger |-> FALSE]
    /\ apikey_ip_whitelist = <<>>
    /\ \E n \in {0, default_limit} :
        /\ audit_events = PreloadedEvents(n)
        /\ audit_index =
               {<<TimestampIndex, 1000 + i, 0>> : i \in 1 .. n}
                   \cup {<<TypeIndex("admin"), 1000 + i, 0>> : i \in 1 .. n}
        /\ audit_returned = [id \in {1000 + i : i \in 1 .. n} |->
                                PreloadedEvents(n)[id - 1000]]
    /\ audit_pc = [w \in Workers |-> NoCall]
    /\ NonAuditIdle
    /\ resp = [op |-> "none"]
    /\ roles = <<>>
    /\ role_cache = <<>>
    /\ rbac_api_keys = <<>>
    /\ ret = [op |-> "none"]
    /\ now = 1

NextAudit ==
    \/ \E w \in AuditWorkers : LogEventBegin(w)
    \/ \E w \in AuditWorkers : LogEventCommand(w)
    \/ \E w \in AuditWorkers : LogEventRaises(w)
    \/ GetEventById
    \/ ExportEvents
    \/ EndOfExchange

SpecAudit == InitAudit /\ [][NextAudit]_vars

\* The RBAC manager's writing calls made by worker processes that share the
\* store, which holds no credential and at most the role "A".
InitAdmin ==
    /\ \E D \in SUBSET {"A"} : roles \in [D -> RoleArgs]
    /\ role_cache = <<>>
    /\ rbac_api_keys = <<>>
    /\ now = 1
    /\ ret = [op |-> "none"]
    /\ HttpIdle

NextAdmin ==
    \/ CreateRole
    \/ \E w \in Workers : CreateApiKeyBegin(w)
    \/ \E w \in Workers : CreateApiKeyExecute(w)

SpecAdmin == InitAdmin /\ [][NextAdmin]_vars

\* The batch processor: jobs are submitted and worked off by the processor
\* loops of the worker processes, which share the store.
InitBatch ==
    /\ roles = <<>>
    /\ role_cache = <<>>
    /\ rbac_api_keys = <<>>
    /\ now = 1
    /\ ret = [op |-> "none"]
    /\ HttpIdle

NextBatch ==
    \/ SubmitJob
    \/ \E w \in Workers : StartProcessing(w)
    \/ \E w \in Workers : NextJob(w)
    \/ \E w \in Workers : ProcessJobBegin(w)
    \/ \E w \in Workers : ProcessItem(w)
    \/ \E w \in Workers : ProcessJobEnd(w)

SpecBatch == InitBatch /\ [][NextBatch]_vars

\* The same with fair scheduling: a loop that can take its next step does
\* so, and a submission or start that is due is made.
SpecBatchFair ==
    /\ SpecBatch
    /\ \A w \in Workers :
        /\ WF_vars(NextJob(w))
        /\ WF_vars(ProcessJobBegin(w))
        /\ WF_vars(ProcessItem(w))
        /\ WF_vars(ProcessJobEnd(w))

\* The batch processors with their whole life cycle: start_processing and
\* stop_processing called in any order.
NextLifecycle ==
    \/ NextBatch
    \/ \E p \in Workers : StopProcessing(p)
    \/ \E w \in Workers : LoopExit(w)

SpecLifecycle == InitBatch /\ [][NextLifecycle]_vars

\* The service from the import of main.py on.
InitStartup ==
    /\ roles = <<>>
    /\ role_cache = <<>>
    /\ rbac_api_keys = <<>>
    /\ now = 1
    /\ ret = [op |-> "none"]
    /\ api_keys = <<>>
    /\ apikey = <<>>
    /\ apikey_metadata = <<>>
    /\ cache = <<>>
    /\ cache_origin = <<>>
    /\ rate_limit = [ip \in ClientIps |-> {}]
    /\ inflight = [w \in Workers |-> Idle]
    /\ rate_log = <<>>
    /\ SecurityIdle
    /\ audit_pc = [w \in Workers |-> NoCall]
    /\ audit_returned = <<>>
    /\ AdminIdle
    /\ BatchIdle
    /\ startup = Importing
    /\ config = DefaultConfig
    /\ resp = [op |-> "none"]

NextStartup ==
    \/ ConnectAttempt
    \/ InitializeRedisFeatures
    \/ AddMiddleware
    \/ ServeReduced
    \/ EndOfExchange

SpecStartup == InitStartup /\ [][NextStartup]_vars

\* ------------------------------------------------------------------------
\* DataProtectionService (security/encryption.py) over an Encryptor
\* ------------------------------------------------------------------------
MaxFields == 2
FieldNames == {"ssn", "name"}
\* a Python value: its type, its str() text and, for a str that is a Fernet
\* token, the number of encryption layers around the text
PyValue(type, text, layers) == [type |-> type, text |-> text, layers |-> layers]
PyNone == PyValue("NoneType", "None", 0)
PyValues ==
    {PyNone, PyValue("str", "abc", 0), PyValue("str", "123", 0),
     PyValue("int", "7", 0)}
\* the dictionaries over the field names and the lists of field names
DataDicts == UNION {[S -> PyValues] : S \in SUBSET FieldNames}
SensitiveFieldLists ==
    UNION {[1 .. n -> FieldNames] : n \in 0 .. MaxFields}

\* the methods the class Encryptor defines
Encryptor ==
    {"get_key", "_generate_key", "derive_key_from_password", "encrypt",
     "decrypt", "decrypt_to_string", "decrypt_to_json"}

\* Encryptor.encrypt: str(data).encode() for a value that is neither dict
\* nor bytes, then the Fernet token of it, returned as a str
encrypt(data) == PyValue("str", data.text, data.layers + 1)

\* Encryptor.decrypt_to_string: the text inside a token; ValueError for a
\* str that is no token
decrypt_to_string(encrypted_data) ==
    IF encrypted_data.type = "str" /\ encrypted_data.layers > 0
    THEN Some(PyValue("str", encrypted_data.text, encrypted_data.layers - 1))
    ELSE Nothing

\* json.loads of a str: a number for a text of digits, JSONDecodeError
\* (Nothing) for the other texts and for a token
json_loads(s) ==
    IF s.layers = 0 /\ s.text \in {"123", "7"}
    THEN Some(PyValue("int", s.text, 0))
    ELSE Nothing

\* the body of the loop of decrypt_sensitive_data for one field value:
\* "self.encryption_manager.decrypt_to_str(...)" looks the attribute up on
\* the Encryptor first (AttributeError when the class has none of that
\* name); any exception leaves None in the field
decrypt_field(value) ==
    IF "decrypt_to_str" \notin Encryptor
    THEN PyNone
    ELSE LET decrypted == decrypt_to_string(value)
         IN  IF decrypted = Nothing
             THEN PyNone
             ELSE IF json_loads(decrypted[1]) # Nothing
             THEN json_loads(decrypted[1])[1]
             ELSE decrypted[1]

\* DataProtectionService.encrypt_sensitive_data from the i-th listed field on
RECURSIVE encrypt_sensitive_data(_, _, _)
encrypt_sensitive_data(result, sensitive_fields, i) ==
    IF i > Len(sensitive_fields)
    THEN result
    ELSE LET field == sensitive_fields[i]
         IN  encrypt_sensitive_data(
                 IF field \in DOMAIN result /\ result[field] # PyNone
                 THEN [result EXCEPT ![field] = encrypt(result[field])]
                 ELSE result,
                 sensitive_fields, i + 1)

\* DataProtectionService.decrypt_sensitive_data from the i-th listed field on
RECURSIVE decrypt_sensitive_data(_, _, _)
decrypt_sensitive_data(result, sensitive_fields, i) ==
    IF i > Len(sensitive_fields)
    THEN result
    ELSE LET field == sensitive_fields[i]
         IN  decrypt_sensitive_data(
                 IF field \in DOMAIN result /\ result[field] # PyNone
                 THEN [result EXCEPT ![field] = decrypt_field(result[field])]
                 ELSE result,
                 sensitive_fields, i + 1)

protection_others ==
    <<now, roles, role_cache, rbac_api_keys, http_vars, idle_vars>>

\* encrypt_sensitive_data(data, sensitive_fields) of a caller's dictionary
EncryptSensitiveData ==
    /\ ret.op = "data"
    /\ ret' = [op |-> "encrypted", data |-> ret.data,
               sensitive_fields |-> ret.sensitive_fields,
               encrypted |-> encrypt_sensitive_data(ret.data,
                                                    ret.sensitive_fields, 1)]
    /\ UNCHANGED protection_others

\* decrypt_sensitive_data of what encrypt_sensitive_data returned, with the
\* same field list
DecryptSensitiveData ==
    /\ ret.op = "encrypted"
    /\ ret' = [op |-> "decrypted", data |-> ret.data,
               sensitive_fields |-> ret.sensitive_fields,
               encrypted |-> ret.encrypted,
               decrypted |-> decrypt_sensitive_data(ret.encrypted,
                                                    ret.sensitive_fields, 1)]
    /\ UNCHANGED protection_others

\* A caller holding any dictionary and any list of field names.
InitProtection ==
    /\ roles = <<>>
    /\ role_cache = <<>>
    /\ rbac_api_keys = <<>>
    /\ now = 1
    /\ HttpIdle
    /\ \E data \in DataDicts, sensitive_fields \in SensitiveFieldLists :
           ret = [op |-> "data", data |-> data,
                  sensitive_fields |-> sensitive_fields]

NextProtection ==
    \/ EncryptSensitiveData
    \/ DecryptSensitiveData

SpecProtection == InitProtection /\ [][NextProtection]_vars

\* ------------------------------------------------------------------------
\* APISecurityMiddleware (api/middleware.py) in front of a route
\* ------------------------------------------------------------------------
\* credential header values sent to the middleware: a stored key, a key
\* that no one stored, and the value the middleware compares with
ApiKeyValues == {"k1", "k2", "test-key"}
\* the JSON documents of the hash "api_keys" as this middleware reads them:
\* "active" true, false or absent, an optional "ip_whitelist"; format
\* "invalid" is a value json.loads rejects
ApiKeyInfo ==
    [format : {"dict"}, key : {"k1"}, active : {"true", "false", None},
     ip_whitelist : {<<>>, <<"ip1">>}]
        \cup {[format |-> "invalid", key |-> "", active |-> None,
               ip_whitelist |-> <<>>]}
\* how the middleware was constructed: enable_security, a redis client or
\* none, enable_ip_whitelist
MiddlewareOptions ==
    [enable_security : BOOLEAN, redis : BOOLEAN, enable_ip_whitelist : BOOLEAN]
HgetOutcomes == {"value", "raises"}
HandlerOutcomes == {"returns", "raises"}

\* APISecurityMiddleware._is_valid_api_key
is_valid_api_key(self, api_key, client_ip, hget_outcome) ==
    IF ~self.redis
    THEN FALSE
    ELSE IF hget_outcome = "raises"
    THEN FALSE
    ELSE IF api_key \notin DOMAIN api_keys
    THEN FALSE
    ELSE LET key_info == api_keys[api_key]
         IN  IF key_info.format # "dict"
             THEN FALSE
             ELSE IF key_info.active # "true"
             THEN FALSE
             ELSE IF self.enable_ip_whitelist /\ key_info.ip_whitelist # <<>>
                     /\ client_ip \notin {key_info.ip_whitelist[i] :
                                            i \in 1 .. Len(key_info.ip_whitelist)}
             THEN FALSE
             ELSE TRUE

\* what dispatch ends with: a response, or an HTTPException raised with a
\* status and a detail
Dispatched(raised, status, detail, called, state_api_key, logged) ==
    [raised |-> raised, status |-> status, detail |-> detail,
     handler |-> called, state_api_key |-> state_api_key, logged |-> logged]

\* "response = await call_next(request)" and the audit write after it
\* (lines 66-80, 91-108): log_event(event_type=, user_id=, details=) is
\* bound against AuditLogger.log_event(event); an exception of it is
\* caught and logged, an exception of the handler becomes a 500
call_next_and_log(self, api_key, handler_status, handler_outcome) ==
    LET logged == audit_call(AuditStore, <<"event">>, {"event"}, 0,
                             {"event_type", "user_id", "details"},
                             AuditEvent(AuditStore, "api.request", api_key,
                                        "success", <<None, None>>))
    IN  IF handler_outcome = "raises"
        THEN Dispatched(TRUE, 500, "Internal server error", TRUE,
                        Some(api_key), FALSE)
        ELSE Dispatched(FALSE, handler_status, "", TRUE, Some(api_key),
                        self.redis /\ ~logged.raised)

\* APISecurityMiddleware.dispatch
dispatch(self, request, handler_status, handler_outcome, hget_outcome) ==
    IF ~self.enable_security
    THEN IF handler_outcome = "raises"
         THEN Dispatched(TRUE, 500, "Internal server error", TRUE, Nothing, FALSE)
         ELSE Dispatched(FALSE, handler_status, "", TRUE, Nothing, FALSE)
    ELSE IF request.api_key = ""
    THEN Dispatched(TRUE, 401, "API key not found", FALSE, Nothing, FALSE)
    ELSE IF request.api_key = "test-key"
    THEN call_next_and_log(self, request.api_key, handler_status,
                           handler_outcome)
    ELSE IF ~is_valid_api_key(self, request.api_key, request.client_ip,
                              hget_outcome)
    THEN Dispatched(TRUE, 401, "Invalid API key", FALSE, Nothing, FALSE)
    ELSE call_next_and_log(self, request.api_key, handler_status,
                           handler_outcome)

api_security_others ==
    <<now, rbac_vars, api_keys, apikey, apikey_metadata, cache, cache_origin,
      rate_limit, inflight, rate_log, config, security, apikey_ip_whitelist,
      audit_events, audit_index, idle_vars>>

\* One request to an application whose only middleware is an
\* APISecurityMiddleware constructed with the given options.  resp keeps
\* the document the hash "api_keys" held for the presented value.
ApiSecurityRequest ==
    /\ resp.op = "none"
    /\ \E self \in MiddlewareOptions, api_key \in ApiKeyValues \cup {""},
          client_ip \in SourceAddresses, handler_status \in HandlerStatuses,
          handler_outcome \in HandlerOutcomes, hget_outcome \in HgetOutcomes :
        \E request \in {[method |-> "GET", path |-> "/test",
                         api_key |-> api_key, client_ip |-> client_ip]} :
        \E r \in {dispatch(self, request, handler_status, handler_outcome,
                           hget_outcome)} :
            resp' = [op |-> "api_security", self |-> self,
                     request |-> request, hget |-> hget_outcome,
                     key_data |-> Lookup(api_keys, api_key),
                     raised |-> r.raised, status |-> r.status,
                     detail |-> r.detail, handler |-> r.handler,
                     state_api_key |-> r.state_api_key, logged |-> r.logged]
    /\ UNCHANGED api_security_others

\* The hash "api_keys" holds any document for k1, or none.
InitApiSecurity ==
    /\ roles = <<>>
    /\ role_cache = <<>>
    /\ rbac_api_keys = <<>>
    /\ now = 1
    /\ ret = [op |-> "none"]
    /\ \E D \in SUBSET {"k1"} : api_keys \in [D -> ApiKeyInfo]
    /\ apikey = <<>>
    /\ apikey_metadata = <<>>
    /\ cache = <<>>
    /\ cache_origin = <<>>
    /\ rate_limit = [ip \in ClientIps |-> {}]
    /\ inflight = [w \in Workers |-> Idle]
    /\ rate_log = <<>>
    /\ SecurityIdle
    /\ OthersIdle
    /\ config = DefaultConfig
    /\ resp = [op |-> "none"]

NextApiSecurity ==
    \/ ApiSecurityRequest
    \/ EndOfExchange

SpecApiSecurity == InitApiSecurity /\ [][NextApiSecurity]_vars

\* ------------------------------------------------------------------------
\* Properties of the RBAC manager (SpecRbac, SpecRoles)
\* ------------------------------------------------------------------------
Range(seq) == {seq[i] : i \in 1 .. Len(seq)}

\* the roles reachable from S through the stored parent links
RECURSIVE ReachableRoles(_)
ReachableRoles(S) ==
    LET N == S \cup UNION {Range(roles[r].parent_roles) : r \in S \cap DOMAIN roles}
    IN  IF N = S THEN S ELSE ReachableRoles(N)

\* the union of the permissions of every stored role reachable from role_list
UnionOfPermissions(role_list) ==
    UNION {roles[r].permissions : r \in ReachableRoles(Range(role_list)) \cap DOMAIN roles}

HasPermissionReturned == ret.op = "has_permission"
CredentialFound == HasPermissionReturned /\ ret.api_key \in DOMAIN rbac_api_keys
Credential == rbac_api_keys[ret.api_key]
\* the stored expiration is a timestamp earlier than the time of the call
ExpiredAtCall == Credential.expiration # NoneInt /\ Credential.expiration < ret.time
ValidCredential == CredentialFound /\ Credential.is_active /\ ~ExpiredAtCall

C7_InheritedPermissionGranted ==
    (ValidCredential /\ ~ret.logged
        /\ ret.permission \in UnionOfPermissions(Credential.roles))
        => ret.result = TRUE

\* C8: has_permission returns true for any requested permission when the
\* credential's effective permissions contain the wildcard "*".
C8_WildcardGrantsAll ==
    (ValidCredential /\ ~ret.logged
        /\ "*" \in UnionOfPermissions(Credential.roles))
        => ret.result = TRUE

\* C9: get_effective_permissions terminates on every role graph, cyclic ones
\* included, and (no store operation raising) returns exactly the union of the
\* permissions of all roles reachable from the input roles.
C9_EffectivePermissionsUnion ==
    ret.op = "get_effective_permissions" =>
        /\ ret.terminated
        /\ ~ret.logged => ret.result = UnionOfPermissions(ret.role_names)

\* C9 witness: the walk from A went round the cycle A -> B -> A and collected
\* the permission only B holds.
C9_Witness ==
    /\ ret.op = "get_effective_permissions"
    /\ ret.role_names = <<"A">> /\ ~ret.logged /\ ret.terminated
    /\ {"A", "B"} \subseteq DOMAIN roles
    /\ roles["A"].parent_roles = <<"B">> /\ roles["B"].parent_roles = <<"A">>
    /\ roles["A"].permissions = {} /\ roles["B"].permissions = {"read"}
    /\ ret.result = {"read"}

\* no role the credential names could be loaded (missing, or its fetch raised)
NoRoleLoaded == \A r \in Range(Credential.roles) : r \notin DOMAIN role_cache

Exchange == resp.op = "request"
Presented == resp.request.api_key
\* AuthMiddleware ran on a request to a path that is not public
AuthRan ==
    Exchange /\ resp.auth.called /\ resp.request.path \notin public_paths
AuthStatus == resp.auth.response.status
HandlerInvoked == resp.auth.handler

\* the stores held, when the request ran, a record the credential resolves
\* to: a traditional document carrying this key or, with no traditional
\* entry, an enterprise key with its metadata
Resolvable ==
    \/ /\ resp.traditional # Nothing
       /\ resp.traditional[1].format = "dict"
       /\ resp.traditional[1].key = Presented
    \/ /\ resp.traditional = Nothing
       /\ resp.enterprise # Nothing
       /\ resp.metadata # Nothing
InNoStore ==
    resp.traditional = Nothing /\ resp.enterprise = Nothing /\ resp.metadata = Nothing
\* the stored record is marked inactive
StoredInactive ==
    /\ resp.traditional # Nothing
    /\ resp.traditional[1].format = "dict"
    /\ resp.traditional[1].active = "false"
\* the stored record's expiration lies before the time of the request
StoredExpired ==
    /\ resp.metadata # Nothing
    /\ resp.metadata[1].expires # NoneInt
    /\ resp.metadata[1].expires < resp.time

\* C1: a request to a protected path bearing a credential whose stored
\* record has active = false or an expiration in the past never reaches the
\* handler, and (the store answering) is answered 401 by the authentication
\* stage.
C1_InactiveOrExpiredRejected ==
    (AuthRan /\ Presented # "" /\ (StoredInactive \/ StoredExpired))
        => /\ ~HandlerInvoked
           /\ resp.fail = "none" => AuthStatus = 401

\* C3: AuthMiddleware invokes the handler of a non-public request only if
\* the credential resolved to a record in the traditional or enterprise
\* store during that request; a credential that does not resolve is answered
\* 401 (500 when the middleware's own store check fails) without the handler,
\* in particular once it is gone from both stores.
C3_HandlerOnlyForResolvedCredential ==
    AuthRan =>
        /\ HandlerInvoked =>
               Presented # "" /\ Resolvable /\ resp.fail \notin {"auth", "validate"}
        /\ (Presented # "" /\ ~Resolvable) =>
               /\ ~HandlerInvoked
               /\ AuthStatus = IF resp.fail = "auth" THEN 500 ELSE 401
        /\ HandlerInvoked => resp.auth.state_api_key # Nothing

\* C3 witness: credential k2 was served before (its response is cached), was
\* then removed from the stores, and the next request bearing it got 401.
C3_Witness ==
    /\ AuthRan /\ Presented = "k2" /\ resp.fail = "none"
    /\ InNoStore
    /\ <<"k2", "GET", "/api/v1/tools">> \in DOMAIN cache
    /\ AuthStatus = 401 /\ ~HandlerInvoked

\* C4: a request to a non-public path that carries no credential header is
\* answered 401 by AuthMiddleware and the handler is never invoked; check_auth
\* answers such a request with 401 as well.
C4_MissingCredentialRejected ==
    /\ (AuthRan /\ Presented = "") =>
           /\ AuthStatus = 401
           /\ resp.auth.response.content = <<"error", "API key is missing">>
           /\ ~HandlerInvoked
    /\ (resp.op = "check_auth" /\ resp.request.api_key = ""
           /\ resp.request.path \notin public_paths) =>
           resp.status = 401 /\ resp.data = Nothing

\* C4 witness: a request without credential to the protected tools route,
\* with a valid key in the store, was answered 401 without the handler.
C4_Witness ==
    /\ AuthRan /\ Presented = "" /\ resp.request.path = "/api/v1/tools"
    /\ "k1" \in DOMAIN api_keys
    /\ AuthStatus = 401 /\ ~HandlerInvoked /\ resp.client.status = 401

\* C5: after a logout request made with a valid credential, the credential is
\* gone from every key store when the logout response is returned.
C5_LogoutInvalidatesCredential ==
    (Exchange /\ resp.request.path = "/api/v1/logout" /\ ~resp.raised
        /\ resp.fail = "none" /\ Presented # "" /\ Resolvable)
        => ~resp.stored_after

\* C6: a cache hit does not bypass authentication: a request to a protected
\* path with a missing or unresolvable credential is answered 401 to the
\* client even when a cache entry exists for its fingerprint.
C6_CacheHitDoesNotBypassAuth ==
    (AuthRan /\ ~resp.raised /\ resp.fail = "none"
        /\ (Presented = "" \/ ~Resolvable))
        => resp.client.status = 401

\* C21: every response leaving the authentication middleware, for
\* authenticated requests, public-path requests and rejections alike, carries
\* all of the fixed security headers.
C21_SecurityHeadersOnEveryResponse ==
    (Exchange /\ resp.auth.called /\ resp.fail = "none" /\ ~resp.raised)
        => SecurityHeaders \subseteq resp.auth.response.headers

\* ------------------------------------------------------------------------
\* Store failures during authentication (Spec)
\* ------------------------------------------------------------------------
\* the store failed while AuthMiddleware authenticated the request: its
\* ping was false or a lookup raised, or a command inside validate_api_key
\* failed
AuthStoreFailed ==
    /\ AuthRan
    /\ resp.request.path \notin public_paths
    /\ resp.fail \in {"auth", "validate"}

\* C31: when a store operation fails while a request to a non-public path is
\* authenticated, AuthMiddleware rejects the request (401 or 500) and the
\* handler is not invoked; unless an outer middleware answered from the
\* cache, the rejection is what the client receives.
C31_AuthFailsClosed ==
    AuthStoreFailed =>
        /\ ~HandlerInvoked
        /\ AuthStatus \in {401, 500}
        /\ resp.auth.state_api_key = Nothing
        /\ ~resp.hit => resp.client.status \in {401, 500}

\* a credential that both stores resolve was presented while the store
\* failed inside validate_api_key, and was answered 401 without the handler
C31_Witness ==
    /\ AuthStoreFailed
    /\ Presented = "k1" /\ Resolvable /\ resp.fail = "validate"
    /\ AuthStatus = 401 /\ ~HandlerInvoked

\* ------------------------------------------------------------------------
\* Order of the stages of one request (Spec)
\* ------------------------------------------------------------------------
\* C35: within one request to a protected path the stages run in the order
\* authentication, authorization, rate-limit check, cache lookup, execution:
\* a request whose credential is not authenticated (AuthMiddleware never
\* reached, or it set no request.state.api_key) leaves the rate-limit
\* windows as they were and is not answered from the cache.
C35_AuthenticatedFirst ==
    [][(/\ resp.op = "none" /\ resp'.op = "request"
        /\ resp'.request.path \notin public_paths
        /\ resp'.auth.state_api_key = Nothing)
           => (rate_limit' = rate_limit /\ ~resp'.hit)]_vars

\* ------------------------------------------------------------------------
\* Properties of the audit logger (SpecAudit)
\* ------------------------------------------------------------------------
\* C22: log_event applies the body write and the index updates as one
\* batch: in no state, a failure of the store part-way through a call and
\* the states a concurrent query sees included, does an index hold an
\* event id that has no body, or is there a body whose id is missing from
\* the timestamp index or from the index of its type.
C22_LogEventAtomic ==
    /\ \A e \in audit_index : e[2] \in BodyIds
    /\ \A i \in 1 .. Len(audit_events) :
        /\ audit_events[i].event_id \in IndexedIds(TimestampIndex)
        /\ audit_events[i].event_id
               \in IndexedIds(TypeIndex(audit_events[i].event_type))

\* C23: once log_event(e) has returned an id, get_event_by_id(id) returns
\* a record equal to e, whatever audit operations were made since, further
\* log_event calls included.
C23_LoggedEventsImmutable ==
    \A id \in DOMAIN audit_returned :
        get_event_by_id(id) = Some(audit_returned[id])

\* C24: the export of export_events(start, end) holds every logged event
\* with a timestamp in [start, end], however many there are, and its
\* metadata's total_events is the number of those events (for an export
\* made while no log_event call is under way and no index entry lacks its
\* body).
C24_ExportComplete ==
    (resp.op = "export_events" /\ resp.settled) =>
        /\ resp.logged \subseteq resp.exported
        /\ resp.total_events = Cardinality(resp.logged)

\* ------------------------------------------------------------------------
\* Properties of create_role and create_api_key (SpecAdmin)
\* ------------------------------------------------------------------------
\* C25: create_role is idempotent on the role name: when the store already
\* holds a role of that name the call returns that role and writes nothing,
\* so the stored role keeps its permissions and parents whatever the
\* arguments of the call.
C25_CreateRoleIdempotent ==
    (ret.op = "create_role" /\ ret.before # Nothing) =>
        /\ ret.after = ret.before
        /\ ret.role = ret.before

\* the credentials registered under a name
Named(name) == {k \in DOMAIN rbac_api_keys : rbac_key_name[k] = name}

\* C26: create_api_key fails for a registered name, so no name has more
\* than one credential, also when calls for one name run concurrently.
C26_OneCredentialPerName ==
    \A name \in KeyNames : Cardinality(Named(name)) <= 1

\* ------------------------------------------------------------------------
\* Properties of the batch processor (SpecBatch)
\* ------------------------------------------------------------------------
\* the jobs that went through process_job's loop with an agent's workflow
\* and were returned
Processed ==
    {id \in DOMAIN batch_log.returned :
        /\ batch_log.returned[id].began
        /\ batch_log.returned[id].workflow_func = "workflow"}
ProcessedJob(id) == batch_log.returned[id].job

\* C27: for a job of n items, an exception of the workflow for item i is
\* caught and recorded as an error result in slot i and the other items
\* are still executed: the job ends completed with n results in the order
\* of the inputs, error for the items that raised, success for the others.
C27_ItemErrorsIsolated ==
    \A id \in Processed :
        /\ ProcessedJob(id).status = "completed"
        /\ Len(ProcessedJob(id).results) = Len(ProcessedJob(id).inputs)
        /\ \A i \in 1 .. Len(ProcessedJob(id).inputs) :
            /\ ProcessedJob(id).results[i].data = ProcessedJob(id).inputs[i]
            /\ ProcessedJob(id).results[i].status =
                   IF ProcessedJob(id).inputs[i] = "bad"
                   THEN "error" ELSE "success"
            /\ <<id, i>> \in batch_log.executed
        /\ batch_jobs[id] = ProcessedJob(id)

\* a job whose first item raised and whose second did not has been processed
C27_Witness ==
    \E id \in Processed :
        /\ ProcessedJob(id).inputs = <<"bad", "good">>
        /\ ProcessedJob(id).results[1].status = "error"
        /\ ProcessedJob(id).results[2].status = "success"

\* C28: a job whose workflow the injected lookup function cannot resolve
\* gets the status failed with a top-level error, and none of its items is
\* executed (looked at once the loop iteration that took the job ended).
C28_UnresolvableWorkflowFails ==
    \A id \in batch_log.handled :
        batch_jobs[id].agent \notin KnownAgents =>
            /\ batch_jobs[id].status = "failed"
            /\ batch_jobs[id].error # Nothing
            /\ \A i \in 1 .. Len(batch_jobs[id].inputs) :
                   <<id, i>> \notin batch_log.executed

\* the statuses stored for a job, in order, form a path of the given steps
FollowsSteps(h, steps) ==
    /\ h[1] = "pending"
    /\ \A i \in 1 .. Len(h) - 1 : <<h[i], h[i + 1]>> \in steps

\* C29 as stated: a stored status of completed or failed never changes and
\* no item of such a job is executed; the stored status only moves
\* pending -> processing -> completed or failed.
C29_StatusOnlyForward ==
    /\ batch_log.late = {}
    /\ \A id \in DOMAIN batch_log.history :
           FollowsSteps(batch_log.history[id],
                        {<<"pending", "processing">>,
                         <<"processing", "completed">>,
                         <<"processing", "failed">>})

\* C29, amended: a stored status of completed or failed never changes and
\* no item of such a job is executed; the stored status moves from pending
\* to processing or straight to failed, and from processing to completed
\* or failed.
C29_TerminalStatusFinal ==
    /\ batch_log.late = {}
    /\ \A id \in DOMAIN batch_log.history :
        /\ FollowsSteps(batch_log.history[id],
                        {<<"pending", "processing">>,
                         <<"pending", "failed">>,
                         <<"processing", "completed">>,
                         <<"processing", "failed">>})
        /\ batch_jobs[id].status =
               batch_log.history[id][Len(batch_log.history[id])]

\* both jobs reached a final status, one of them without being processed,
\* and the queue is empty with both loops waiting for work
C29_Witness ==
    /\ batch_queue = <<>>
    /\ \A w \in Workers : batch_worker[w].pc = 1
    /\ \E a, b \in DOMAIN batch_log.history :
        /\ batch_log.history[a] = <<"pending", "processing", "completed">>
        /\ batch_log.history[b] = <<"pending", "failed">>

\* C37: while a job is processed its state is persisted after every item:
\* once the k-th item has been attempted, and before the next one is, the
\* stored record of the job holds k results.
C37_PersistedAfterEveryItem ==
    \A w \in Workers :
        (/\ batch_worker[w].pc = 3
         /\ Len(batch_worker[w].results) > 0
         /\ Len(batch_worker[w].results) < Len(batch_worker[w].job.inputs))
            => Len(batch_jobs[batch_worker[w].job.id].results)
                   = Len(batch_worker[w].results)

\* ------------------------------------------------------------------------
\* Properties of the life cycle of the processor loops (SpecLifecycle)
\* ------------------------------------------------------------------------
\* stop_processing has returned for loop w: the loop was started and its
\* processor no longer refers to it
Abandoned(w) ==
    batch_worker[w].pc # 0 /\ batch_processor[owner(w)].thread # w
\* the pops loop w made
PopsBy(log, w) == {i \in 1 .. Len(log.taken) : log.taken[i][2] = w}
\* the jobs loop w took
TakenBy(w) == {batch_log.taken[i][1] : i \in PopsBy(batch_log, w)}

\* C38: after stop_processing the loop pops no further job.
C38_StoppedLoopPopsNothing ==
    [][\A w \in Workers :
          Abandoned(w) => PopsBy(batch_log', w) = PopsBy(batch_log, w)]_vars

\* the other half of C38: once a loop that stop_processing gave up on has
\* ended, the job it had in flight is stored with a final status, and with
\* a result for every input when the status is completed
InFlightJobFinished ==
    \A w \in Workers :
        (Abandoned(w) /\ batch_worker[w].pc = 7) =>
            \A id \in TakenBy(w) :
                /\ Terminal(batch_jobs[id].status)
                /\ batch_jobs[id].status = "completed" =>
                       Len(batch_jobs[id].results) = Len(batch_jobs[id].inputs)

\* no job is taken off the queue twice
NoJobTakenTwice ==
    \A i, j \in 1 .. Len(batch_log.taken) :
        batch_log.taken[i][1] = batch_log.taken[j][1] => i = j

\* C39: at most one processor loop of a BatchProcessor consumes the queue,
\* after any sequence of start_processing and stop_processing calls, so
\* that no job is processed by two loops.
C39_AtMostOneLoop ==
    /\ \A p \in Workers :
           Cardinality({w \in batch_processor[p].threads : Running(w)}) <= 1
    /\ NoJobTakenTwice

\* ------------------------------------------------------------------------
\* Progress of the jobs (SpecBatchFair)
\* ------------------------------------------------------------------------
\* job id was submitted while a processor loop was running
SubmittedWhileRunning(id) == id \in batch_log.live
\* the stored record of job id is completed or failed
Finished(id) == id \in DOMAIN batch_jobs /\ Terminal(batch_jobs[id].status)

\* the jobs are taken off the queue in the order of their submission
TakenInFifoOrder ==
    \A i, j \in 1 .. Len(batch_log.taken) :
        i < j => batch_log.taken[i][1] < batch_log.taken[j][1]

\* C40: every job submitted while the processor loop is running eventually
\* reaches completed or failed, each workflow call terminating and the
\* loops being scheduled fairly (unless the store becomes unreachable).
C40_EveryJobFinishes ==
    \A id \in 1 .. MaxJobs :
        SubmittedWhileRunning(id) ~> (Finished(id) \/ batch_log.outage)

\* ------------------------------------------------------------------------
\* Properties of the start-up (SpecStartup)
\* ------------------------------------------------------------------------
ReducedMode == startup.pc = "started" /\ ~startup.redis_client
CorePaths == {"/", "/api/v1/health"}

CacheHit == Exchange /\ resp.hit
\* the request that created the entry the last request was served from
HitOrigin == cache_origin[get_cache_key(resp.request)]

\* C11: a cache entry created by a request bearing credential A is never
\* served to a request bearing a different credential B with the same method,
\* path and query, whatever credential header name is configured.
C11_NoCrossCredentialCacheHit ==
    (CacheHit /\ Presented # "") => HitOrigin.api_key = Presented

\* C16: on a cache hit the response is served from the cached payload and the
\* downstream handler is not invoked for that request.
C16_HitSkipsHandler ==
    (CacheHit /\ resp.fail = "none" /\ ~resp.raised)
        => (~HandlerInvoked /\ resp.client.status = HitOrigin.status)

\* every entry of the cache has a creating response, of status below 400 and
\* to a path that is not excluded, and holds that response's status
EntriesEligible ==
    /\ DOMAIN cache = DOMAIN cache_origin
    /\ \A k \in DOMAIN cache :
           /\ cache[k].status_code < 400
           /\ cache[k].status_code = cache_origin[k].status
           /\ cache_origin[k].path \notin excluded_paths
           /\ config.cache_enabled
\* a request to an excluded path, or any request while caching is disabled,
\* leaves the cache as it was and is not answered from it
CacheUntouched ==
    (resp.op = "none" /\ resp'.op = "request"
        /\ (resp'.request.path \in excluded_paths \/ ~config.cache_enabled))
        => (cache' = cache /\ ~resp'.hit)

\* C17: every entry present in the response cache was created from a response
\* with status code below 400 to a non-excluded path; for excluded paths the
\* cache is neither written nor read, and when caching is disabled no entry is
\* written or read.
C17_OnlyEligibleResponsesCached ==
    []EntriesEligible /\ [][CacheUntouched]_vars
\* with caching enabled and an entry in the cache, a request to the excluded
\* health-check path was answered 200 by its handler, not from the cache
C17_Witness ==
    /\ Exchange /\ resp.request.path \in excluded_paths
    /\ config.cache_enabled /\ cache # <<>>
    /\ resp.fail = "none" /\ resp.client.status = 200
    /\ HandlerInvoked /\ ~resp.hit
    /\ get_cache_key(resp.request) \notin DOMAIN cache

\* ------------------------------------------------------------------------
\* Properties of the pipeline under a small rate limit (SpecLimited)
\* ------------------------------------------------------------------------
\* C18: a request to a configured public path that carries no credential
\* header is never rejected by the pipeline: it bypasses authentication,
\* authorization and rate limiting and always reaches the downstream handler.
C18_PublicPathNeverRejected ==
    (Exchange /\ resp.request.path \in public_paths /\ Presented = ""
        /\ resp.fail = "none")
        => (HandlerInvoked /\ ~resp.limited /\ ~resp.raised)

\* ------------------------------------------------------------------------
\* Properties of the rate limiter (SpecRate)
\* ------------------------------------------------------------------------
RateChecked == resp.op = "check_rate_limit"
\* the timestamps of an identity's window newer than now - 60 s
Recent(ip) == {s \in rate_limit[ip] : s > now - window_seconds}
\* the allowed calls of an identity whose time is newer than now - 60 s
AllowedRecently(ip) ==
    {i \in 1 .. Len(rate_log) :
        /\ rate_log[i].client_ip = ip /\ rate_log[i].allowed
        /\ rate_log[i].time > now - window_seconds}

\* C12: with a limit of L requests per minute, after L allowed check_rate_limit
\* calls from one identity within a 60-second window the next call from that
\* identity within the same window is rejected.
C12_CallAfterLimitRejected ==
    (RateChecked /\ resp.allowed_before >= requests_per_minute) => resp.limited

\* C13: for every identity, the number of timestamps recorded in its window
\* that are newer than now - 60 s never exceeds the configured limit.
C13_WindowWithinLimit ==
    \A ip \in ClientIps : Cardinality(Recent(ip)) <= requests_per_minute

\* C14: the four steps execute as one atomic batch, so that with concurrent
\* calls from the same identity no interleaving lets more than the configured
\* limit of them be allowed within one 60-second window.
C14_ConcurrentCallsWithinLimit ==
    \A ip \in ClientIps : Cardinality(AllowedRecently(ip)) <= requests_per_minute

\* C15: when check_rate_limit rejects a call, the reported reset equals the
\* number of seconds until the oldest timestamp of the identity's window ages
\* out of the 60-second window.
C15_ResetIsOldestAgeOut ==
    (RateChecked /\ resp.limited) =>
        resp.reset = resp.oldest + window_seconds - resp.time

\* ------------------------------------------------------------------------
\* Properties of the security middleware (SpecSecurity)
\* ------------------------------------------------------------------------
SecurityExchange == resp.op = "security"
\* has_permission was called for the route's permission and returned false
PermissionDenied == SecurityExchange /\ resp.denied

\* C19: a request bearing a credential whose IP allowlist is non-empty, sent
\* from a source address that is not in that list, is rejected and never
\* reaches the downstream handler (RBAC enabled and its manager initialized).
C19_AllowlistEnforced ==
    (SecurityExchange /\ resp.request.path \notin skipped_paths
        /\ security.rbac_enabled /\ security.rbac_manager
        /\ resp.role_found /\ resp.ip_whitelist # <<>>
        /\ resp.request.client_ip \notin Range(resp.ip_whitelist))
        => (~resp.handler /\ (resp.raised \/ resp.status >= 400))

\* C20: for a route that declares a required permission, whenever
\* has_permission returns false the request is rejected with 403, the handler
\* is not invoked, and exactly one audit event of type access-denied is
\* recorded for the denial, carrying the resource type and id when present
\* (audit logging enabled).
C20_DenialIs403WithOneAuditEvent ==
    (PermissionDenied /\ security.audit_enabled) =>
        /\ ~resp.raised /\ resp.status = 403 /\ ~resp.handler
        /\ Len(audit_events) = resp.events_before + 1
        /\ audit_events[Len(audit_events)].event_type = "access.denied"
        /\ audit_events[Len(audit_events)].resource = resp.route.resource

\* the middleware had an audit logger and its audit write of the request
\* (integration.py:175-190, or the authentication event before it) raised
AuditWriteFailed ==
    /\ SecurityExchange
    /\ resp.request.path \notin skipped_paths
    /\ security.audit_logger
    /\ log_api_request(AuditStore, 1, RequestedKeywords,
                       resp.request.path).raised

UnknownKeyPresented ==
    /\ SecurityExchange
    /\ resp.request.path \notin skipped_paths
    /\ resp.request.api_key # ""
    /\ ~resp.role_found
    /\ resp.request.api_key \notin DOMAIN rbac_api_keys

\* C33: the security middleware rejects a request whose API key resolves to
\* no stored key with 401, does not invoke the downstream handler, and
\* records an audit event for the failure.
C33_UnknownKeyRejected ==
    UnknownKeyPresented =>
        /\ ~resp.raised /\ resp.status = 401
        /\ ~resp.handler
        /\ Len(audit_events) = resp.events_before + 1

\* ------------------------------------------------------------------------
\* Properties of the data protection service (SpecProtection)
\* ------------------------------------------------------------------------
RoundTripDone == ret.op = "decrypted"

\* the fields that are not listed hold in the encrypted and in the decrypted
\* dictionary what they held in the caller's
NonListedPassThrough ==
    RoundTripDone =>
        \A f \in DOMAIN ret.data \ Range(ret.sensitive_fields) :
            ret.encrypted[f] = ret.data[f] /\ ret.decrypted[f] = ret.data[f]

\* C34: field-selective encryption round-trips: decrypting, with the same
\* field list, what encrypt_sensitive_data returned gives the original
\* dictionary, for every dictionary and every field list.
C34_RoundTrip ==
    RoundTripDone => ret.decrypted = ret.data

\* ------------------------------------------------------------------------
\* Properties of APISecurityMiddleware (SpecApiSecurity)
\* ------------------------------------------------------------------------
\* a request with a credential went through a middleware with security on
KeyPresented ==
    /\ resp.op = "api_security"
    /\ resp.self.enable_security
    /\ resp.request.api_key # ""
\* the presented value resolves to a document of "api_keys" whose active
\* flag is true
ResolvesToActiveKey ==
    /\ resp.key_data # Nothing
    /\ resp.key_data[1].format = "dict"
    /\ resp.key_data[1].active = "true"

\* C36: the handler is invoked only when the presented key resolves to a
\* record of api_keys whose active flag is true; every other presented key
\* value is rejected with 401 "Invalid API key".
C36_OnlyActiveStoredKeys ==
    KeyPresented =>
        /\ resp.handler => ResolvesToActiveKey
        /\ ~ResolvesToActiveKey =>
               /\ resp.raised /\ resp.status = 401
               /\ resp.detail = "Invalid API key"

====
